---- MODULE Spec2Model ----
(***************************************************************************)
(* State machine of the Duo session state and recovery engine:             *)
(* DuoState (state.js), the checkpoint files (memory/checkpoint.js), the   *)
(* chat log (memory/chat.js) and the tools that drive them                 *)
(* (tools/session.js, tools/tasks.js, tools/recover.js), and the file      *)
(* watcher DuoWatcher (watcher.js).                                        *)
(***************************************************************************)
EXTENDS Integers, Sequences, FiniteSets, TLC

VARIABLES
    alive,        \* stateInstance of resources.js is set (a DuoState is live)
    dashboard,    \* DuoState.dashboard is set
    session,      \* DuoState.session
    sessionFile,  \* .duo/session.json
    prefsFile,    \* .duo/preferences.json
    designFile,   \* .duo/design.md
    memoryDir,    \* .duo/memory/checkpoint-<timestamp>.jsonl, one entry per file
    chatLog,      \* .duo/chat/session-<startedAt>.jsonl
    events,       \* DashboardServer.eventLog
    clock,        \* the wall clock read by now()
    nops,         \* number of calls made so far
    failed,       \* a write of this instance failed since it was loaded
    last,         \* the last call: its name, arguments and outcome
    clients,      \* DashboardServer.clients: the open event streams
    procs,        \* the tool calls in progress: where each one is suspended
    instances,    \* the DuoState objects made in this process: their sessions
    stateInstance, \* resources.js stateInstance: the object it refers to, 0 = null
    running,         \* DuoWatcher.running
    watchers,        \* DuoWatcher.watchers: the directories with an open watch
    walk,            \* the pending start(): the directories still to register
    debounceTimers,  \* DuoWatcher.debounceTimers: path -> pending timer
    changes,         \* what the onChange callback has received, in order
    wclock,          \* the time in ms as the timers see it
    rawLog,          \* per path: the raw events received so far
    matched          \* the last matchTask call: its arguments and its result

svars == <<alive, dashboard, session, sessionFile, prefsFile, designFile,
           memoryDir, chatLog, events, clock, nops, failed, last>>

cvars == <<procs, instances, stateInstance>>
dvars == <<clients, procs, instances, stateInstance>>

wvars == <<running, watchers, walk, debounceTimers, changes, wclock, rawLog,
           matched>>

vars == <<alive, dashboard, session, sessionFile, prefsFile, designFile,
          memoryDir, chatLog, events, clock, nops, failed, last,
          running, watchers, walk, debounceTimers, changes, wclock, rawLog,
          matched, clients, procs, instances, stateInstance>>

----------------------------------------------------------------------------
(* Bounds of the model *)

MaxOps == 2        \* calls per behaviour of Spec
MaxRecOps == 4     \* calls per behaviour of SpecRecover
MaxClock == 1      \* the clock runs from 0 to MaxClock
MaxTasks == 3      \* entries of the task board that addTask is offered
MaxSubs == 2       \* records of the registry that addSubagent is offered
MaxFailAt == 3     \* the writes of a tool call that may be the failing one

(* Input domains *)

Phases == {"idle", "design", "planning", "executing", "reviewing", "integrating"}
Statuses == {"todo", "in_progress", "review", "done"}
Assignees == {"human", "ai"}
TaskIds == {"t1", "t2"}
\* (status, notes) of a review: without notes, and with notes
ReviewInputs == {<<"pending", "">>, <<"approved", "n1">>, <<"changes_requested", "n1">>,
                 <<"approved", "">>}
TaskTypes == {"ui"}
SpawnTimes == {0, 1}

Null == [null |-> TRUE]

Designs ==
    { [taskDescription |-> "feat", agreedDesign |-> "plan",
       decisions |-> ds, deferredItems |-> <<>>, createdAt |-> 0]
      : ds \in {<<>>, <<"k1">>} }

SubagentInfos ==
    { [taskId |-> i, status |-> "pending", spawnedAt |-> t, prompt |-> "p"]
      : i \in TaskIds, t \in SpawnTimes }

\* The outcome of the n-th file write of a call: "err" the write rejects and
\* leaves the file as it was, "crash" the process dies while the file is
\* truncated.  at = 0: every write succeeds.
FailModes == {"err", "crash"}
NoFailure == [at |-> 0, mode |-> "err"]
FailuresUpTo(n) == {NoFailure} \cup {[at |-> k, mode |-> m] : k \in 1..n, m \in FailModes}
\* a write that rejects, or none
Rejections(n) == {f \in FailuresUpTo(n) : f.mode = "err"}

----------------------------------------------------------------------------
(* Helpers *)

Has(r, k) == k \in DOMAIN r

SetField(r, k, v) == [x \in DOMAIN r \cup {k} |-> IF x = k THEN v ELSE r[x]]

NoFile == [kind |-> "none"]
Torn == [kind |-> "torn"]
Json(d) == [kind |-> "json", data |-> d]
Text(d) == [kind |-> "text", data |-> d]

\* Array.prototype.findIndex over the task board; 0 when absent
RECURSIVE FindFrom(_, _, _)
FindFrom(tasks, id, i) ==
    IF i > Len(tasks) THEN 0
    ELSE IF tasks[i].id = id THEN i
    ELSE FindFrom(tasks, id, i + 1)

now == clock

NoOverrides == [x \in {} |-> "human"]

DefaultSession(t) ==
    [phase |-> "idle",
     taskBoard |-> [tasks |-> <<>>, createdAt |-> t, updatedAt |-> t],
     design |-> Null,
     preferences |-> [humanPrefers |-> <<>>, aiPrefers |-> <<>>,
                      overrides |-> NoOverrides],
     subagents |-> <<>>,
     startedAt |-> t,
     updatedAt |-> t]

\* JSON.stringify(task) / JSON.parse: the keys a task carries, value by value
StringifyTask(t) == [k \in DOMAIN t |-> t[k]]

\* JSON.stringify(this.session, null, 2): every field of the session
Stringify(s) ==
    [phase |-> s.phase,
     taskBoard |-> [tasks |-> [i \in 1..Len(s.taskBoard.tasks) |->
                                  StringifyTask(s.taskBoard.tasks[i])],
                    createdAt |-> s.taskBoard.createdAt,
                    updatedAt |-> s.taskBoard.updatedAt],
     design |-> s.design,
     preferences |-> s.preferences,
     subagents |-> s.subagents,
     startedAt |-> s.startedAt,
     updatedAt |-> s.updatedAt]

\* design.md: the sections with no entry are left out
formatDesignDoc(design) ==
    [title |-> design.taskDescription,
     prose |-> design.agreedDesign,
     sections |-> (IF Len(design.decisions) > 0 THEN {"Key Decisions"} ELSE {})
                  \cup (IF Len(design.deferredItems) > 0 THEN {"Deferred"} ELSE {}),
     decisions |-> design.decisions,
     deferred |-> design.deferredItems,
     footer |-> design.createdAt]

----------------------------------------------------------------------------
(* The store: the instance and the files it writes, threaded through the   *)
(* steps of one call.  err is the exception in flight ("none" when the     *)
(* call is still running), failIn counts down to the write that fails.     *)

Store(f) ==
    [s |-> session, sf |-> sessionFile, pf |-> prefsFile, df |-> designFile,
     md |-> memoryDir, chat |-> chatLog, ev |-> events,
     inst |-> alive, dash |-> dashboard,
     err |-> "none", failIn |-> f.at, mode |-> f.mode, wfail |-> FALSE,
     emits |-> 0]

\* fs.writeFile(path, content) on the file held in field f of the store
WriteFile(st, f, content) ==
    IF st.failIn = 1
    THEN [st EXCEPT ![f] = IF st.mode = "err" THEN @ ELSE Torn,
                    !.err = IF st.mode = "crash" THEN "crash" ELSE "io",
                    !.failIn = 0,
                    !.wfail = TRUE]
    ELSE [st EXCEPT ![f] = content,
                    !.failIn = IF @ > 1 THEN @ - 1 ELSE 0]

\* the size to which DashboardServer.emitEvent trims eventLog
eventLogLimit == 200

\* Array.slice(-n)
sliceLast(xs, n) == IF Len(xs) > n THEN SubSeq(xs, Len(xs) - n + 1, Len(xs)) ELSE xs

\* the trim that keeps the oldest entries
trim_KeepOldest(log) ==
    IF Len(log) > eventLogLimit THEN SubSeq(log, 1, eventLogLimit) ELSE log

\* if (eventLog.length > 200) eventLog = eventLog.slice(-200)
trim(log) ==
    IF Len(log) > eventLogLimit THEN sliceLast(log, eventLogLimit) ELSE log

\* DuoState.emitEvent and the eventLog half of DashboardServer.emitEvent; emits
\* counts the events handed to the clients
emitEvent(st, event) ==
    IF st.dash
    THEN [st EXCEPT !.ev = trim(Append(@, [timestamp |-> now, event |-> event])),
                    !.emits = @ + 1]
    ELSE st

\* save with the rejection of writeFile caught and dropped
save_Swallow(st) ==
    LET st1 == [st EXCEPT !.s.updatedAt = now]
        st2 == WriteFile(st1, "sf", Json(Stringify(st1.s)))
    IN  [st2 EXCEPT !.err = IF @ = "io" THEN "none" ELSE @]

save(st) ==
    LET st1 == [st EXCEPT !.s.updatedAt = now]
    IN  WriteFile(st1, "sf", Json(Stringify(st1.s)))

savePreferences(st) == WriteFile(st, "pf", Json(st.s.preferences))

saveDesign(st) ==
    IF st.s.design # Null
    THEN WriteFile(st, "df", Text(formatDesignDoc(st.s.design)))
    ELSE st

getTask(st, id) == FindFrom(st.s.taskBoard.tasks, id, 1)

\* setPhase that refuses to go back to design from a later phase
setPhase_ForwardOnly(st, phase) ==
    IF st.err # "none" THEN st
    ELSE IF phase = "design" /\ st.s.phase \notin {"idle", "design"}
    THEN [st EXCEPT !.err = "invalid"]
    ELSE save(emitEvent([st EXCEPT !.s.phase = phase],
                        [type |-> "phase_changed", phase |-> phase]))

setPhase(st, phase) ==
    IF st.err # "none" THEN st
    ELSE save(emitEvent([st EXCEPT !.s.phase = phase],
                        [type |-> "phase_changed", phase |-> phase]))

\* setDesign that renders design.md and forgets session.json
setDesign_NoSave(st, design) ==
    IF st.err # "none" THEN st
    ELSE saveDesign([st EXCEPT !.s.design = design])

setDesign(st, design) ==
    IF st.err # "none" THEN st
    ELSE LET st1 == saveDesign([st EXCEPT !.s.design = design])
         IN  IF st1.err # "none" THEN st1 ELSE save(st1)

\* addTask that takes the task off the board again when the write fails
addTask_Rollback(st, id, description, assignee, files) ==
    IF st.err # "none" THEN st
    ELSE LET task == [id |-> id, description |-> description,
                      assignee |-> assignee, status |-> "todo",
                      files |-> files, createdAt |-> now, updatedAt |-> now]
             st1 == [st EXCEPT !.s.taskBoard.tasks = Append(@, task),
                               !.s.taskBoard.updatedAt = now]
             st2 == save(emitEvent(st1, [type |-> "task_added", task |-> task]))
         IN  IF st2.wfail THEN [st2 EXCEPT !.s = st.s] ELSE st2

addTask(st, id, description, assignee, files) ==
    IF st.err # "none" THEN st
    ELSE LET task == [id |-> id, description |-> description,
                      assignee |-> assignee, status |-> "todo",
                      files |-> files, createdAt |-> now, updatedAt |-> now]
             st1 == [st EXCEPT !.s.taskBoard.tasks = Append(@, task),
                               !.s.taskBoard.updatedAt = now]
         IN  save(emitEvent(st1, [type |-> "task_added", task |-> task]))

\* the place of a status in todo -> in_progress -> review -> done
StatusRank(status) ==
    CASE status = "todo" -> 0
      [] status = "in_progress" -> 1
      [] status = "review" -> 2
      [] OTHER -> 3

\* a status update that keeps the status when the new one is an earlier one
updateTaskStatus_ForwardOnly(st, id, status) ==
    IF st.err # "none" THEN st
    ELSE LET i == getTask(st, id)
         IN  IF i = 0 THEN [st EXCEPT !.err = "notfound"]
             ELSE LET old == st.s.taskBoard.tasks[i].status
                      new == IF StatusRank(status) < StatusRank(old) THEN old
                             ELSE status
                      st1 == [st EXCEPT !.s.taskBoard.tasks[i].status = new,
                                        !.s.taskBoard.tasks[i].updatedAt = now,
                                        !.s.taskBoard.updatedAt = now]
                  IN  save(emitEvent(st1, [type |-> "task_updated", taskId |-> id,
                                           changes |-> [status |-> status]]))

updateTaskStatus(st, id, status) ==
    IF st.err # "none" THEN st
    ELSE LET i == getTask(st, id)
         IN  IF i = 0 THEN [st EXCEPT !.err = "notfound"]
             ELSE LET st1 == [st EXCEPT !.s.taskBoard.tasks[i].status = status,
                                        !.s.taskBoard.tasks[i].updatedAt = now,
                                        !.s.taskBoard.updatedAt = now]
                  IN  save(emitEvent(st1, [type |-> "task_updated", taskId |-> id,
                                           changes |-> [status |-> status]]))

\* reassignTask that saves before it looks the task up
reassignTask_SaveFirst(st, id, assignee) ==
    IF st.err # "none" THEN st
    ELSE LET i == getTask(st, id)
             st0 == save(st)
         IN  IF st0.err # "none" THEN st0
             ELSE IF i = 0 THEN [st0 EXCEPT !.err = "notfound"]
             ELSE LET from == st0.s.taskBoard.tasks[i].assignee
                      st1 == [st0 EXCEPT !.s.taskBoard.tasks[i].assignee = assignee,
                                         !.s.taskBoard.tasks[i].updatedAt = now,
                                         !.s.taskBoard.updatedAt = now]
                  IN  save(emitEvent(st1, [type |-> "task_reassigned", taskId |-> id,
                                           from |-> from, to |-> assignee]))

reassignTask(st, id, assignee) ==
    IF st.err # "none" THEN st
    ELSE LET i == getTask(st, id)
         IN  IF i = 0 THEN [st EXCEPT !.err = "notfound"]
             ELSE LET from == st.s.taskBoard.tasks[i].assignee
                      st1 == [st EXCEPT !.s.taskBoard.tasks[i].assignee = assignee,
                                        !.s.taskBoard.tasks[i].updatedAt = now,
                                        !.s.taskBoard.updatedAt = now]
                  IN  save(emitEvent(st1, [type |-> "task_reassigned", taskId |-> id,
                                           from |-> from, to |-> assignee]))

setReviewStatus(st, id, status, notes) ==
    IF st.err # "none" THEN st
    ELSE LET i == getTask(st, id)
         IN  IF i = 0 THEN [st EXCEPT !.err = "notfound"]
             ELSE LET t0 == st.s.taskBoard.tasks[i]
                      t1 == SetField(t0, "reviewStatus", status)
                      t2 == IF notes # "" THEN SetField(t1, "reviewNotes", notes) ELSE t1
                      t3 == [t2 EXCEPT !.updatedAt = now]
                      st1 == [st EXCEPT !.s.taskBoard.tasks[i] = t3]
                  IN  save(emitEvent(st1, [type |-> "review_completed", taskId |-> id,
                                           approved |-> (status = "approved")]))

addPreference(st, taskType, assignee) ==
    IF st.err # "none" THEN st
    ELSE LET st1 == savePreferences(
                      [st EXCEPT !.s.preferences.overrides =
                                     SetField(@, taskType, assignee)])
         IN  IF st1.err # "none" THEN st1 ELSE save(st1)

\* addSubagent that keeps one record per task id
addSubagent_Dedupe(st, info) ==
    IF st.err # "none" THEN st
    ELSE IF \E i \in 1..Len(st.s.subagents) : st.s.subagents[i].taskId = info.taskId
    THEN save(st)
    ELSE save([st EXCEPT !.s.subagents = Append(@, info)])

addSubagent(st, info) ==
    IF st.err # "none" THEN st
    ELSE save([st EXCEPT !.s.subagents = Append(@, info)])

\* log that writes the file anew with the one line
logChat_Overwrite(st, from, type, content, taskId) ==
    IF st.err # "none" THEN st
    ELSE [st EXCEPT !.chat = <<[file |-> st.s.startedAt, timestamp |-> now,
                                from |-> from, type |-> type, content |-> content,
                                taskId |-> taskId]>>]

\* ChatLogger.log: one line appended to the file named from startedAt
logChat(st, from, type, content, taskId) ==
    IF st.err # "none" THEN st
    ELSE LET full == [file |-> st.s.startedAt, timestamp |-> now, from |-> from,
                      type |-> type, content |-> content, taskId |-> taskId]
         IN  IF st.failIn = 1
             THEN [st EXCEPT !.chat = IF st.mode = "err" THEN @
                                      ELSE Append(@, [file |-> st.s.startedAt,
                                                      torn |-> TRUE]),
                             !.err = IF st.mode = "crash" THEN "crash" ELSE "io",
                             !.failIn = 0]
             ELSE [st EXCEPT !.chat = Append(@, full),
                             !.failIn = IF @ > 1 THEN @ - 1 ELSE 0]

\* the lines of the file of this session's ChatLogger
ChatLines(st) == SelectSeq(st.chat, LAMBDA l : l.file = st.s.startedAt)

\* JSON.parse of a line: the entry as JSON.stringify wrote it, in which a
\* taskId that was not given is absent
ParseLine(l) ==
    LET e == [timestamp |-> l.timestamp, from |-> l.from, type |-> l.type,
              content |-> l.content]
    IN  IF l.taskId = "" THEN e ELSE SetField(e, "taskId", l.taskId)

\* getHistory that counts the limit from the start of the log
getHistory_First(st, args) ==
    LET lines == ChatLines(st)
        entries == [i \in 1..Len(lines) |-> ParseLine(lines[i])]
    IN  IF Len(args) > 0 /\ args[1] > 0 /\ args[1] < Len(entries)
        THEN [err |-> "none", out |-> SubSeq(entries, 1, args[1])]
        ELSE [err |-> "none", out |-> entries]

\* ChatLogger.getHistory(limit); args is the argument list, <<>> or <<limit>>
getHistory(st, args) ==
    LET lines == ChatLines(st)
    IN  IF lines = <<>> THEN [err |-> "none", out |-> <<>>]
        ELSE IF \E i \in 1..Len(lines) : Has(lines[i], "torn")
        THEN [err |-> "parse", out |-> <<>>]
        ELSE LET entries == [i \in 1..Len(lines) |-> ParseLine(lines[i])]
             IN  IF Len(args) > 0 /\ args[1] > 0
                 THEN [err |-> "none", out |-> sliceLast(entries, args[1])]
                 ELSE [err |-> "none", out |-> entries]

----------------------------------------------------------------------------
(* Checkpoints (memory/checkpoint.js) *)

RECURSIVE FlatFiles(_)
FlatFiles(tasks) ==
    IF tasks = <<>> THEN <<>> ELSE Head(tasks).files \o FlatFiles(Tail(tasks))

\* the files as flatMap gives them, repeated ones included
Dedupe_Keep(xs) == xs

\* Array.from(new Set(xs)): first occurrences, in order
RECURSIVE Dedupe(_)
Dedupe(xs) ==
    IF xs = <<>> THEN <<>>
    ELSE LET init == Dedupe(SubSeq(xs, 1, Len(xs) - 1))
             x == xs[Len(xs)]
         IN  IF \E i \in 1..Len(init) : init[i] = x THEN init ELSE Append(init, x)

writeCheckpoint(st, data) ==
    IF st.err # "none" THEN st
    ELSE LET timestamp == now
             checkpoint ==
                 [timestamp |-> timestamp,
                  phase |-> data.phase,
                  tasks |-> [i \in 1..Len(data.tasks) |-> StringifyTask(data.tasks[i])],
                  design |-> data.design,
                  subagents |-> data.subagents,
                  decisions |-> IF data.design = Null THEN <<>>
                                ELSE data.design.decisions,
                  filesModified |-> Dedupe(FlatFiles(data.tasks)),
                  context |-> data.context]
             others == {f \in st.md : f.name # timestamp}
         IN  IF st.failIn = 1
             THEN [st EXCEPT !.md = IF st.mode = "err" THEN @
                                    ELSE others \cup {[name |-> timestamp,
                                                       content |-> Torn]},
                             !.err = IF st.mode = "crash" THEN "crash" ELSE "io",
                             !.failIn = 0]
             ELSE [st EXCEPT !.md = others \cup {[name |-> timestamp,
                                                  content |-> Json(checkpoint)]},
                             !.failIn = IF @ > 1 THEN @ - 1 ELSE 0]

checkpoint(st, context) ==
    writeCheckpoint(st, [phase |-> st.s.phase, tasks |-> st.s.taskBoard.tasks,
                         design |-> st.s.design, subagents |-> st.s.subagents,
                         context |-> context])

\* the file names of the directory, sorted and reversed: newest first
RECURSIVE SortDesc(_)
SortDesc(names) ==
    IF names = {} THEN <<>>
    ELSE LET m == CHOOSE x \in names : \A y \in names : y <= x
         IN  <<m>> \o SortDesc(names \ {m})

\* a listing that is sorted and not reversed: oldest first
listCheckpoints_Unreversed(md) ==
    LET names == SortDesc({f.name : f \in md})
    IN  [i \in 1..Len(names) |-> names[Len(names) + 1 - i]]

listCheckpoints(md) == SortDesc({f.name : f \in md})

\* the content of the newest file; NoFile when the directory is empty
readLatestCheckpoint(md) ==
    IF md = {} THEN NoFile
    ELSE (CHOOSE f \in md : f.name = listCheckpoints(md)[1]).content

----------------------------------------------------------------------------
(* Loading an instance *)

\* new DuoState(projectRoot): the constructor's default session, no dashboard
NewDuoState(st) ==
    [st EXCEPT !.s = DefaultSession(now), !.dash = FALSE, !.ev = <<>>]

\* DuoState.init: JSON.parse of a truncated file throws
init(st) ==
    IF st.sf = Torn THEN [st EXCEPT !.err = "parse"]
    ELSE LET s1 == IF st.sf = NoFile THEN st.s
                   ELSE IF Has(st.sf.data, "subagents") THEN st.sf.data
                   ELSE SetField(st.sf.data, "subagents", <<>>)
         IN  IF st.pf = Torn THEN [st EXCEPT !.s = s1, !.err = "parse"]
             ELSE IF st.pf = NoFile THEN [st EXCEPT !.s = s1]
             ELSE [st EXCEPT !.s = [s1 EXCEPT !.preferences = st.pf.data]]

\* resources.js: the singleton, loaded from .duo/session.json when not set
getStateInstanceAutoLoad(st) ==
    IF st.inst THEN st
    ELSE IF st.sf = NoFile THEN st
    ELSE LET st1 == init(NewDuoState(st))
         IN  IF st1.err # "none" THEN [st1 EXCEPT !.s = st.s]
             ELSE [st1 EXCEPT !.inst = TRUE]

----------------------------------------------------------------------------
(* duo_recover_session (tools/recover.js) *)

\* the restore loop that also restores the assignee
RecoverTask_Reassign(st, task) ==
    IF st.err # "none" THEN st
    ELSE LET st1 == IF getTask(st, task.id) = 0
                    THEN addTask(st, task.id, task.description, task.assignee,
                                 task.files)
                    ELSE st
             i == getTask(st1, task.id)
             st2 == IF st1.err = "none" /\ i # 0
                       /\ st1.s.taskBoard.tasks[i].assignee # task.assignee
                    THEN reassignTask(st1, task.id, task.assignee)
                    ELSE st1
         IN  IF st2.err # "none" THEN st2
             ELSE IF i # 0 /\ st2.s.taskBoard.tasks[i].status # task.status
             THEN updateTaskStatus(st2, task.id, task.status)
             ELSE st2

RecoverTask(st, task) ==
    IF st.err # "none" THEN st
    ELSE LET st1 == IF getTask(st, task.id) = 0
                    THEN addTask(st, task.id, task.description, task.assignee,
                                 task.files)
                    ELSE st
             i == getTask(st1, task.id)
         IN  IF st1.err # "none" THEN st1
             ELSE IF i # 0 /\ st1.s.taskBoard.tasks[i].status # task.status
             THEN updateTaskStatus(st1, task.id, task.status)
             ELSE st1

\* a restore loop that adds every task of the checkpoint, on the board or not
RECURSIVE RecoverTasks_AddAll(_, _)
RecoverTasks_AddAll(st, tasks) ==
    IF tasks = <<>> THEN st
    ELSE LET task == Head(tasks)
         IN  RecoverTasks_AddAll(
                 updateTaskStatus(addTask(st, task.id, task.description,
                                          task.assignee, task.files),
                                  task.id, task.status),
                 Tail(tasks))

RECURSIVE RecoverTasks(_, _)
RecoverTasks(st, tasks) ==
    IF tasks = <<>> THEN st
    ELSE RecoverTasks(RecoverTask(st, Head(tasks)), Tail(tasks))

\* the restore loop without the alreadyTracked test
RecoverSubagent_NoDedupe(st, sub) ==
    IF st.err # "none" THEN st
    ELSE addSubagent(st, sub)

\* existingSubagents is the live array of the session
RecoverSubagent(st, sub) ==
    IF st.err # "none" THEN st
    ELSE LET existingSubagents == st.s.subagents
             alreadyTracked ==
                 \E i \in 1..Len(existingSubagents) :
                     /\ existingSubagents[i].taskId = sub.taskId
                     /\ existingSubagents[i].spawnedAt = sub.spawnedAt
         IN  IF ~alreadyTracked THEN addSubagent(st, sub) ELSE st

RECURSIVE RecoverSubagents(_, _)
RecoverSubagents(st, subs) ==
    IF subs = <<>> THEN st
    ELSE RecoverSubagents(RecoverSubagent(st, Head(subs)), Tail(subs))

\* the handler from "Restore session state" on, given the parsed checkpoint
RestoreFrom(st, ck) ==
    LET st1 == setPhase(st, ck.phase)
        st2 == IF ck.design # Null THEN setDesign(st1, ck.design) ELSE st1
        st3 == RecoverTasks(st2, ck.tasks)
        st4 == RecoverSubagents(st3, ck.subagents)
    IN  logChat(st4, "system", "event", "recovered", "")

duo_recover_session(st) ==
    LET st0 == getStateInstanceAutoLoad(st)
        file == readLatestCheckpoint(st0.md)
    IN  IF st0.err # "none" THEN st0
        ELSE IF ~st0.inst THEN [st0 EXCEPT !.err = "nosession"]
        ELSE IF file = NoFile THEN [st0 EXCEPT !.err = "nocheckpoint"]
        ELSE IF file = Torn THEN [st0 EXCEPT !.err = "parse"]
        ELSE RestoreFrom(st0, file.data)

----------------------------------------------------------------------------
(* duo_task_add (tools/tasks.js) *)

RECURSIVE AddAll(_, _)
AddAll(st, taskList) ==
    IF taskList = <<>> THEN st
    ELSE AddAll(addTask(st, Head(taskList).id, Head(taskList).description,
                        Head(taskList).assignee, Head(taskList).files),
                Tail(taskList))

duo_task_add(st, taskList) ==
    LET st0 == getStateInstanceAutoLoad(st)
    IN  IF st0.err # "none" THEN st0
        ELSE IF ~st0.inst THEN [st0 EXCEPT !.err = "nosession"]
        ELSE AddAll(st0, taskList)

----------------------------------------------------------------------------
(* DuoWatcher (watcher.js).  Paths and patterns are sequences of characters. *)

MaxRaw == 3        \* raw filesystem events per behaviour
MaxQuiet == 2      \* the time runs for MaxQuiet quiet periods
MaxWalks == 1      \* start() calls whose directory walk is pending at once

debounceMs == 500

\* the steps by which the time advances
Delays == {250, 500}

EventTypes == {"rename", "change"}

\* config.ignorePatterns: node_modules-like, *.log-like, and a backup suffix
ignorePatterns == << <<"n", "m">>, <<"*", ".", "l">>, <<"*", "~">> >>

\* the paths fs.watch reports, relative to the project root
Paths == { <<"s", "/", "a">>, <<"n", "m", "/", "a">>, <<"a", ".", "l">>,
           <<"a", "~">> }

projectRoot == <<"/", "r">>

\* readdir(dir): the names of the sub-directories, for the walk of start()
Entries(relDir) ==
    IF relDir = <<>> THEN << <<"s">>, <<"n", "m">> >> ELSE <<>>

startsWith(str, t) == Len(t) <= Len(str) /\ SubSeq(str, 1, Len(t)) = t

endsWith(str, t) ==
    Len(t) <= Len(str) /\ SubSeq(str, Len(str) - Len(t) + 1, Len(str)) = t

includes(str, t) ==
    \E i \in 0..(Len(str) - Len(t)) : SubSeq(str, i + 1, i + Len(t)) = t

\* str.slice(n)
slice(str, n) == SubSeq(str, n + 1, Len(str))

\* path.join of two normalised parts
join(a, b) == IF a = <<>> THEN b ELSE IF b = <<>> THEN a ELSE a \o <<"/">> \o b

\* path.relative(projectRoot, filePath) for a root one level below "/"
relative(root, filePath) ==
    IF filePath = root THEN <<>>
    ELSE IF startsWith(filePath, root \o <<"/">>)
    THEN slice(filePath, Len(root) + 1)
    ELSE <<".", ".">> \o filePath

\* the directory part of a relative path
DirOf(path) ==
    LET seps == {i \in 1..Len(path) : path[i] = "/"}
    IN  IF seps = {} THEN <<>>
        ELSE SubSeq(path, 1, (CHOOSE i \in seps : \A j \in seps : j <= i) - 1)

\* a shouldIgnore that takes every pattern for a plain substring
shouldIgnore_PlainOnly(filePath) ==
    \E k \in 1..Len(ignorePatterns) : includes(filePath, ignorePatterns[k])

shouldIgnore(filePath) ==
    \E k \in 1..Len(ignorePatterns) :
        LET pattern == ignorePatterns[k]
        IN  IF startsWith(pattern, <<"*", ".">>)
            THEN endsWith(filePath, slice(pattern, 1))
            ELSE includes(filePath, pattern)

Undefined == [undefined |-> TRUE]

NoTimer == [set |-> FALSE]

\* setTimeout(callback, debounceMs) at the time t, for an event of this type
Timer(t, eventType) == [set |-> TRUE, due |-> t + debounceMs, eventType |-> eventType]

\* a handleChange with one timer for all paths: a raw event cancels the others
handleChange_SharedTimer(timers, eventType, filename, t) ==
    IF shouldIgnore(filename) THEN timers
    ELSE [q \in DOMAIN timers |->
             IF q = filename THEN Timer(t, eventType) ELSE NoTimer]

\* DuoWatcher.handleChange: the timers after a raw event at the time t
handleChange(timers, eventType, filename, t) ==
    IF shouldIgnore(filename) THEN timers
    ELSE [timers EXCEPT ![filename] = Timer(t, eventType)]

\* DuoWatcher.emitChange: the FileChange handed to the callbacks
\* a change record that reports every change as a rename
FileChange_Rename(eventType, filename, t) ==
    [filePath |-> join(projectRoot, filename), relativePath |-> filename,
     eventType |-> "rename", timestamp |-> t]

FileChange(eventType, filename, t) ==
    [filePath |-> join(projectRoot, filename), relativePath |-> filename,
     eventType |-> eventType, timestamp |-> t]

\* a test for the exact path only
Owns_ExactOnly(relPath, f) == relPath = f

\* the test of t.files.some(...) for one ownership entry f
Owns(relPath, f) ==
    \/ relPath = f
    \/ startsWith(relPath, f)
    \/ endsWith(f, relPath)
    \/ includes(relPath, f)

\* a search that returns the last task that matches
RECURSIVE FindTask_Last(_, _, _)
FindTask_Last(tasks, relPath, i) ==
    IF i > Len(tasks) THEN Undefined
    ELSE LET later == FindTask_Last(tasks, relPath, i + 1)
         IN  IF later # Undefined THEN later
             ELSE IF \E k \in 1..Len(tasks[i].files) :
                        Owns(relPath, tasks[i].files[k])
             THEN tasks[i]
             ELSE Undefined

\* tasks.find(...) from the index i on
RECURSIVE FindTask(_, _, _)
FindTask(tasks, relPath, i) ==
    IF i > Len(tasks) THEN Undefined
    ELSE IF \E k \in 1..Len(tasks[i].files) : Owns(relPath, tasks[i].files[k])
    THEN tasks[i]
    ELSE FindTask(tasks, relPath, i + 1)

\* a matchTask that passes over the directory-style entries
matchTask_FilesOnly(filePath, tasks) ==
    FindTask([i \in 1..Len(tasks) |->
                 [tasks[i] EXCEPT !.files =
                     SelectSeq(@, LAMBDA f : f = <<>> \/ f[Len(f)] # "/")]],
             relative(projectRoot, filePath), 1)

\* DuoWatcher.matchTask
matchTask(filePath, tasks) == FindTask(tasks, relative(projectRoot, filePath), 1)

\* a watcher as its constructor leaves it, with one callback registered
Unwatched ==
    /\ running = FALSE
    /\ watchers = {}
    /\ walk = <<>>
    /\ debounceTimers = [p \in Paths |-> NoTimer]
    /\ changes = <<>>
    /\ wclock = 0
    /\ rawLog = [p \in Paths |-> [n |-> 0, at |-> 0, eventType |-> "none",
                                  notes |-> 0, stopped |-> FALSE]]
    /\ matched = [called |-> FALSE]

----------------------------------------------------------------------------
(* duo_phase_advance (tools/session.ts), duo_task_update (tools/tasks.ts) *)

\* try { ... } catch { }: a rejection inside is dropped, a dead process is not
Caught(st) == [st EXCEPT !.err = IF @ = "crash" THEN @ ELSE "none"]

duo_phase_advance(st, phase) ==
    LET st0 == getStateInstanceAutoLoad(st)
    IN  IF st0.err # "none" THEN st0
        ELSE IF ~st0.inst THEN [st0 EXCEPT !.err = "nosession"]
        ELSE LET st1 == setPhase(st0, phase)
                 st2 == IF st1.err # "none" THEN st1
                        ELSE Caught(checkpoint(st1, <<"Phase transition to", phase>>))
             IN  logChat(st2, "system", "event", <<"Phase advanced to", phase>>, "")

\* the status half of duo_task_update
UpdateStatus(st, id, status) ==
    LET st1 == updateTaskStatus(st, id, status)
        st2 == IF status = "done"
               THEN checkpoint(st1, <<"Task completed", id>>)
               ELSE st1
    IN  logChat(st2, "system", "event", <<"status", id, status>>, id)

\* the assignee half of duo_task_update
UpdateAssignee(st, id, assignee) ==
    logChat(reassignTask(st, id, assignee), "system", "event",
            <<"reassigned", id, assignee>>, id)

\* args holds id and, when given, status and assignee; every exception of
\* the two halves lands in the one catch, which answers isError
duo_task_update(st, args) ==
    LET st0 == getStateInstanceAutoLoad(st)
    IN  IF st0.err # "none" THEN st0
        ELSE IF ~st0.inst THEN [st0 EXCEPT !.err = "nosession"]
        ELSE IF ~Has(args, "status") /\ ~Has(args, "assignee")
        THEN [st0 EXCEPT !.err = "noargs"]
        ELSE LET st1 == IF Has(args, "status")
                        THEN UpdateStatus(st0, args.id, args.status) ELSE st0
             IN  IF Has(args, "assignee")
                 THEN UpdateAssignee(st1, args.id, args.assignee) ELSE st1

----------------------------------------------------------------------------
(* duo_review_start, duo_review_submit, duo_integrate (tools/review.ts),    *)
(* duo_subagent_spawn (tools/subagent.js)                                   *)

\* saveDocument: a write below .duo/docs, a directory that no other call reads
saveDocument(st) ==
    IF st.err # "none" THEN st
    ELSE IF st.failIn = 1
    THEN [st EXCEPT !.err = IF st.mode = "crash" THEN "crash" ELSE "io",
                    !.failIn = 0]
    ELSE [st EXCEPT !.failIn = IF @ > 1 THEN @ - 1 ELSE 0]

duo_review_start(st, taskId) ==
    LET st0 == getStateInstanceAutoLoad(st)
    IN  IF st0.err # "none" THEN st0
        ELSE IF ~st0.inst THEN [st0 EXCEPT !.err = "nosession"]
        ELSE setReviewStatus(updateTaskStatus(st0, taskId, "review"),
                             taskId, "pending", "")

duo_review_submit(st, taskId, approved, feedback) ==
    LET st0 == getStateInstanceAutoLoad(st)
    IN  IF st0.err # "none" THEN st0
        ELSE IF ~st0.inst THEN [st0 EXCEPT !.err = "nosession"]
        ELSE LET status == IF approved THEN "approved" ELSE "changes_requested"
                 st1 == setReviewStatus(st0, taskId, status, feedback)
             IN  IF approved THEN updateTaskStatus(st1, taskId, "done") ELSE st1

\* tasks.filter(t => t.status !== "done")
Pending(tasks) == SelectSeq(tasks, LAMBDA t : t.status # "done")

\* integration without the test on pending tasks
duo_integrate_Always(st) ==
    LET st0 == getStateInstanceAutoLoad(st)
    IN  IF st0.err # "none" THEN st0
        ELSE IF ~st0.inst THEN [st0 EXCEPT !.err = "nosession"]
        ELSE LET st1 == setPhase(st0, "integrating")
             IN  IF st1.err # "none" THEN st1 ELSE Caught(saveDocument(st1))

duo_integrate(st) ==
    LET st0 == getStateInstanceAutoLoad(st)
    IN  IF st0.err # "none" THEN st0
        ELSE IF ~st0.inst THEN [st0 EXCEPT !.err = "nosession"]
        ELSE IF Len(Pending(st0.s.taskBoard.tasks)) > 0
        THEN [st0 EXCEPT !.err = "pending"]
        ELSE LET st1 == setPhase(st0, "integrating")
             IN  IF st1.err # "none" THEN st1 ELSE Caught(saveDocument(st1))

\* the first dependency that is missing or not done: "nodep", "notdone", or
\* "none" when every dependency is a done task
RECURSIVE CheckDependencies(_, _)
CheckDependencies(st, dependencies) ==
    IF dependencies = <<>> THEN "none"
    ELSE LET i == getTask(st, Head(dependencies))
         IN  IF i = 0 THEN "nodep"
             ELSE IF st.s.taskBoard.tasks[i].status # "done" THEN "notdone"
             ELSE CheckDependencies(st, Tail(dependencies))

\* spawn that does not look at the dependencies
duo_subagent_spawn_NoDeps(st, in) ==
    LET st0 == getStateInstanceAutoLoad(st)
    IN  IF st0.err # "none" THEN st0
        ELSE IF ~st0.inst THEN [st0 EXCEPT !.err = "nosession"]
        ELSE IF getTask(st0, in.taskId) = 0 THEN [st0 EXCEPT !.err = "notask"]
        ELSE LET st1 == updateTaskStatus(st0, in.taskId, "in_progress")
             IN  addSubagent(st1, [taskId |-> in.taskId, status |-> "pending",
                                   spawnedAt |-> now, prompt |-> in.prompt])

\* in holds taskId, dependencies and prompt; the prompt that is stored is
\* built from the instructions, the phase and the design
duo_subagent_spawn(st, in) ==
    LET st0 == getStateInstanceAutoLoad(st)
    IN  IF st0.err # "none" THEN st0
        ELSE IF ~st0.inst THEN [st0 EXCEPT !.err = "nosession"]
        ELSE IF getTask(st0, in.taskId) = 0 THEN [st0 EXCEPT !.err = "notask"]
        ELSE IF CheckDependencies(st0, in.dependencies) # "none"
        THEN [st0 EXCEPT !.err = CheckDependencies(st0, in.dependencies)]
        ELSE LET st1 == updateTaskStatus(st0, in.taskId, "in_progress")
                 subagentPrompt == [instructions |-> in.prompt,
                                    phase |-> st1.s.phase,
                                    design |-> st1.s.design]
             IN  addSubagent(st1, [taskId |-> in.taskId, status |-> "pending",
                                   spawnedAt |-> now, prompt |-> subagentPrompt])

----------------------------------------------------------------------------
(* DashboardServer: the event streams (dashboard/server.ts) *)

ClientIds == {"c1", "c2"}

\* a response that is not in this.clients
NoClient == [state |-> "none", undelivered |-> 0]

\* handleSSE: the response joins this.clients
Joined == [state |-> "open", undelivered |-> 0]

\* sendEvent: client.write, twice, result ignored.  An open stream takes the
\* data; one whose reader has stalled buffers it; one whose socket is
\* destroyed discards it.  write does not throw in any of the three.
sendEvent(client) ==
    IF client.state \in {"slow", "gone"}
    THEN [client EXCEPT !.undelivered = @ + 1]
    ELSE client

\* for (const client of this.clients) sendEvent(client, "update", payload),
\* once per emitted event
RECURSIVE Broadcast(_, _)
Broadcast(cl, n) ==
    IF n = 0 THEN cl
    ELSE Broadcast([c \in ClientIds |->
                       IF cl[c].state = "none" THEN cl[c] ELSE sendEvent(cl[c])],
                   n - 1)

----------------------------------------------------------------------------
(* Tool calls that run at the same time: each is suspended at its awaits     *)

CallIds == {"a", "b"}

\* no call in progress in this slot
IdleProc == [pc |-> "idle"]

----------------------------------------------------------------------------
(* Actions *)

Dead == DefaultSession(0)

Result(st) == IF st.err = "none" THEN "ok" ELSE st.err

\* the state a call leaves behind in the store and its files
CommitStore(st, op, id) ==
    LET up == st.inst /\ st.err # "crash"
    IN  /\ alive' = up
        /\ dashboard' = (up /\ st.dash)
        /\ session' = IF up THEN st.s ELSE Dead
        /\ sessionFile' = st.sf
        /\ prefsFile' = st.pf
        /\ designFile' = st.df
        /\ memoryDir' = st.md
        /\ chatLog' = st.chat
        /\ events' = IF up THEN st.ev ELSE <<>>
        /\ failed' = (up /\ (st.wfail \/ (alive /\ failed)))
        /\ last' = [op |-> op, id |-> id, res |-> Result(st), wfail |-> st.wfail]
        /\ nops' = nops + 1
        /\ UNCHANGED clock
        /\ UNCHANGED wvars

\* a call made while no event stream is open
Commit(st, op, id) == CommitStore(st, op, id) /\ UNCHANGED dvars

\* new DuoState(root) and init() on a directory with no state, as the tests
\* construct it
Fresh ==
    /\ alive = TRUE
    /\ session = Dead
    /\ sessionFile = NoFile
    /\ prefsFile = NoFile
    /\ designFile = NoFile
    /\ memoryDir = {}
    /\ chatLog = <<>>
    /\ events = <<>>
    /\ clock = 0
    /\ nops = 0
    /\ failed = FALSE
    /\ last = [op |-> "boot", id |-> "", res |-> "ok", wfail |-> FALSE]
    /\ clients = [c \in ClientIds |-> NoClient]
    /\ procs = [c \in CallIds |-> IdleProc]
    /\ instances = <<>>
    /\ stateInstance = 0
    /\ Unwatched

\* with the dashboard attached by setDashboard
Init == Fresh /\ dashboard = TRUE

Tick ==
    /\ clock < MaxClock
    /\ clock' = clock + 1
    /\ UNCHANGED <<alive, dashboard, session, sessionFile, prefsFile, designFile,
                   memoryDir, chatLog, events, nops, failed, last>>
    /\ UNCHANGED wvars
    /\ UNCHANGED dvars

\* the server process ends; the files stay
ProcessExit ==
    /\ alive
    /\ alive' = FALSE
    /\ dashboard' = FALSE
    /\ session' = Dead
    /\ events' = <<>>
    /\ failed' = FALSE
    /\ last' = [op |-> "exit", id |-> "", res |-> "ok", wfail |-> FALSE]
    /\ clients' = [c \in ClientIds |-> NoClient]
    /\ procs' = [c \in CallIds |-> IdleProc]
    /\ instances' = <<>>
    /\ stateInstance' = 0
    /\ UNCHANGED <<sessionFile, prefsFile, designFile, memoryDir, chatLog,
                   clock, nops>>
    /\ UNCHANGED wvars

\* duo_session_start (tools/session.js)
SessionStartStore(f) ==
    LET st1 == init(NewDuoState(Store(f)))
        isExisting == Len(st1.s.taskBoard.tasks) > 0 \/ st1.s.phase # "idle"
        st2 == IF st1.err = "none" /\ ~isExisting
               THEN setPhase(st1, "design") ELSE st1
        st3 == logChat(st2, "system", "event",
                       IF isExisting THEN "resumed" ELSE "started", "")
        replaced == st2.err = "none"
        up == IF replaced THEN st3.err # "crash" ELSE alive /\ st2.err # "crash"
    IN  /\ alive' = up
        /\ dashboard' = IF replaced THEN st3.err = "none" ELSE up /\ dashboard
        /\ session' = IF ~up THEN Dead ELSE IF replaced THEN st3.s ELSE session
        /\ events' = IF up /\ ~replaced THEN events ELSE <<>>
        /\ failed' = (up /\ ~replaced /\ (failed \/ st2.wfail))
        /\ sessionFile' = st3.sf
        /\ prefsFile' = st3.pf
        /\ designFile' = st3.df
        /\ memoryDir' = st3.md
        /\ chatLog' = st3.chat
        /\ last' = [op |-> "init", id |-> "", res |-> Result(st3),
                    wfail |-> st3.wfail]
        /\ nops' = nops + 1
        /\ UNCHANGED clock
        /\ UNCHANGED wvars

\* duo_session_start while no other call is in progress
SessionStart(f) == SessionStartStore(f) /\ UNCHANGED dvars

\* a read-only tool (duo_session_status): getStateInstanceAutoLoad and a read
AutoLoad ==
    /\ ~alive
    /\ sessionFile # NoFile
    /\ Commit(getStateInstanceAutoLoad(Store(NoFailure)), "init", "")

SetPhase(phase, f) ==
    /\ alive
    /\ Commit(setPhase(Store(f), phase), "setPhase", "")

SetDesign(design, f) ==
    /\ alive
    /\ Commit(setDesign(Store(f), design), "setDesign", "")

AddTask(id, in, f) ==
    /\ alive
    /\ Len(session.taskBoard.tasks) < MaxTasks
    /\ Commit(addTask(Store(f), id, in.description, in.assignee, in.files),
              "addTask", id)

DuoTaskAdd(id1, id2, f) ==
    /\ Len(session.taskBoard.tasks) + 2 <= MaxTasks
    /\ Commit(duo_task_add(Store(f),
                  << [id |-> id1, description |-> "d1", assignee |-> "human",
                      files |-> <<"a.ts">>],
                     [id |-> id2, description |-> "d2", assignee |-> "ai",
                      files |-> <<"a.ts">>] >>),
              "duo_task_add", id1)

UpdateTaskStatus(id, status, f) ==
    /\ alive
    /\ Commit(updateTaskStatus(Store(f), id, status), "updateTaskStatus", id)

ReassignTask(id, assignee, f) ==
    /\ alive
    /\ Commit(reassignTask(Store(f), id, assignee), "reassignTask", id)

SetReviewStatus(id, status, notes, f) ==
    /\ alive
    /\ Commit(setReviewStatus(Store(f), id, status, notes), "setReviewStatus", id)

AddPreference(taskType, assignee, f) ==
    /\ alive
    /\ Commit(addPreference(Store(f), taskType, assignee), "addPreference", "")

AddSubagent(info, f) ==
    /\ alive
    /\ Len(session.subagents) < MaxSubs
    /\ Commit(addSubagent(Store(f), info), "addSubagent", info.taskId)

Checkpoint(f) ==
    /\ alive
    /\ Commit(checkpoint(Store(f), "manual"), "checkpoint", "")

Recover(f) ==
    Commit(duo_recover_session(Store(f)), "recover", "")

TaskInputs ==
    { [description |-> "d1", assignee |-> "human", files |-> <<"a.ts">>],
      [description |-> "d2", assignee |-> "ai", files |-> <<>>] }

\* The calls on the store: every mutator with every input, every write of
\* which may reject.  The process may die in any write of session.json; what
\* is left then (no instance, a truncated file) does not depend on the mutator
\* that was writing, and the death is offered in setPhase, setDesign,
\* addPreference and duo_session_start.
Next ==
    \/ Tick
    \/ ProcessExit
    \/ nops < MaxOps /\ \E f \in FailuresUpTo(2) : SessionStart(f)
    \/ nops < MaxOps /\ AutoLoad
    \/ nops < MaxOps /\ \E p \in Phases, f \in FailuresUpTo(1) : SetPhase(p, f)
    \/ nops < MaxOps /\ \E d \in Designs, f \in FailuresUpTo(2) : SetDesign(d, f)
    \/ nops < MaxOps /\ \E i \in TaskIds, in \in TaskInputs, f \in Rejections(1) :
          AddTask(i, in, f)
    \/ nops < MaxOps /\ \E i1 \in TaskIds, i2 \in TaskIds, f \in Rejections(2) :
          DuoTaskAdd(i1, i2, f)
    \/ nops < MaxOps /\ \E i \in TaskIds, s \in Statuses, f \in Rejections(1) :
          UpdateTaskStatus(i, s, f)
    \/ nops < MaxOps /\ \E i \in TaskIds, a \in Assignees, f \in Rejections(1) :
          ReassignTask(i, a, f)
    \/ nops < MaxOps /\ \E i \in TaskIds, r \in ReviewInputs, f \in Rejections(1) :
          SetReviewStatus(i, r[1], r[2], f)
    \/ nops < MaxOps /\ \E t \in TaskTypes, a \in Assignees, f \in FailuresUpTo(2) :
          AddPreference(t, a, f)
    \/ nops < MaxOps /\ \E info \in SubagentInfos, f \in Rejections(1) :
          AddSubagent(info, f)
    \/ nops < MaxOps /\ \E f \in Rejections(1) : Checkpoint(f)
    \/ nops < MaxOps /\ \E f \in Rejections(MaxFailAt) : Recover(f)

Spec == Init /\ [][Next]_vars

\* Recovery: a session is built, checkpointed, changed or lost, and recovered,
\* on an instance that has no dashboard
InitRecover == Fresh /\ dashboard = FALSE

NextRecover ==
    \/ Tick
    \/ ProcessExit
    \/ nops < MaxRecOps /\ \E i2 \in TaskIds : DuoTaskAdd("t1", i2, NoFailure)
    \/ nops < MaxRecOps /\ \E i \in TaskIds : UpdateTaskStatus(i, "done", NoFailure)
    \/ nops < MaxRecOps /\ \E i \in TaskIds : ReassignTask(i, "ai", NoFailure)
    \/ nops < MaxRecOps /\ \E i \in TaskIds, f \in Rejections(1) :
          AddSubagent([taskId |-> i, status |-> "pending", spawnedAt |-> 0,
                       prompt |-> "p"], f)
    \/ nops < MaxRecOps /\ SetPhase("executing", NoFailure)
    \/ nops < MaxRecOps /\ Checkpoint(NoFailure)
    \/ nops < MaxRecOps /\ \E f \in Rejections(MaxFailAt) : Recover(f)

SpecRecover == InitRecover /\ [][NextRecover]_vars

----------------------------------------------------------------------------
(* The watcher: start, stop, raw events, timers *)

Horizon == MaxQuiet * debounceMs

RawCount == LET RECURSIVE Sum(_)
                Sum(ps) == IF ps = {} THEN 0
                           ELSE LET q == CHOOSE q \in ps : TRUE
                                IN  rawLog[q].n + Sum(ps \ {q})
            IN  Sum(Paths)

\* the sub-directories of relDir that the walk descends into
Descend(relDir) ==
    LET es == Entries(relDir)
        keep == SelectSeq(es, LAMBDA name : ~shouldIgnore(name))
    IN  [i \in 1..Len(keep) |-> join(relDir, keep[i])]

\* dropping the walks that have nothing left to register
Settled(ws) == SelectSeq(ws, LAMBDA w : w # <<>>)

\* start(): one recursive watch on the root, or, where fs.watch rejects the
\* recursive option, watchDirectoriesRecursive up to its first readdir
Start(recursive) ==
    /\ ~running
    /\ running' = TRUE
    /\ IF recursive
       THEN /\ watchers' = watchers \cup {[dir |-> <<>>, recursive |-> TRUE]}
            /\ walk' = walk
       ELSE /\ Len(walk) < MaxWalks
            /\ watchers' = IF shouldIgnore(<<>>) THEN watchers
                           ELSE watchers \cup {[dir |-> <<>>, recursive |-> FALSE]}
            /\ walk' = IF shouldIgnore(<<>>) THEN walk
                       ELSE Settled(Append(walk, Descend(<<>>)))
    /\ UNCHANGED <<debounceTimers, changes, wclock, rawLog, matched>>
    /\ UNCHANGED svars
    /\ UNCHANGED dvars

\* watchDirectoriesRecursive resumes after a readdir: the next directory is
\* watched and read
WalkStep(k) ==
    /\ k \in 1..Len(walk)
    /\ LET relDir == Head(walk[k])
           rest == Tail(walk[k])
       IN  IF shouldIgnore(relDir)
           THEN /\ watchers' = watchers
                /\ walk' = Settled([walk EXCEPT ![k] = rest])
           ELSE /\ watchers' = watchers \cup {[dir |-> relDir, recursive |-> FALSE]}
                /\ walk' = Settled([walk EXCEPT ![k] = Descend(relDir) \o rest])
    /\ UNCHANGED <<running, debounceTimers, changes, wclock, rawLog, matched>>
    /\ UNCHANGED svars
    /\ UNCHANGED dvars

\* a stop() that closes the watches and leaves the timers
Stop_KeepTimers ==
    /\ running' = FALSE
    /\ watchers' = {}
    /\ rawLog' = [p \in Paths |->
                     [rawLog[p] EXCEPT !.stopped = debounceTimers[p].set \/ @]]
    /\ UNCHANGED <<debounceTimers, walk, changes, wclock, matched>>
    /\ UNCHANGED svars
    /\ UNCHANGED dvars

\* stop()
Stop ==
    /\ running' = FALSE
    /\ watchers' = {}
    /\ debounceTimers' = [p \in Paths |-> NoTimer]
    /\ rawLog' = [p \in Paths |->
                     [rawLog[p] EXCEPT !.stopped = debounceTimers[p].set \/ @]]
    /\ UNCHANGED <<walk, changes, wclock, matched>>
    /\ UNCHANGED svars
    /\ UNCHANGED dvars

\* an open watch reports this path
Watched(path) ==
    \E w \in watchers : IF w.recursive THEN w.dir = <<>> ELSE w.dir = DirOf(path)

\* the callback of fs.watch: handleChange(eventType, filename)
RawEvent(path, eventType) ==
    /\ Watched(path)
    /\ RawCount < MaxRaw
    /\ wclock + debounceMs <= Horizon
    /\ debounceTimers' = handleChange(debounceTimers, eventType, path, wclock)
    /\ rawLog' = [rawLog EXCEPT ![path] =
                     IF shouldIgnore(path) THEN [@ EXCEPT !.n = @ + 1]
                     ELSE [n |-> @.n + 1, at |-> wclock, eventType |-> eventType,
                           notes |-> IF @.n > 0 /\ wclock - @.at < debounceMs
                                     THEN @.notes ELSE 0,
                           stopped |-> FALSE]]
    /\ UNCHANGED <<running, watchers, walk, changes, wclock, matched>>
    /\ UNCHANGED svars
    /\ UNCHANGED dvars

\* a timer that runs as soon as the next turn of the event loop
Fire_Early(path) ==
    /\ debounceTimers[path].set
    /\ debounceTimers' = [debounceTimers EXCEPT ![path] = NoTimer]
    /\ changes' = Append(changes, FileChange(debounceTimers[path].eventType,
                                             path, wclock))
    /\ rawLog' = [rawLog EXCEPT ![path].notes = @ + 1]
    /\ UNCHANGED <<running, watchers, walk, wclock, matched>>
    /\ UNCHANGED svars
    /\ UNCHANGED dvars

\* the timer of a path runs: the entry is deleted and the change is emitted
Fire(path) ==
    /\ debounceTimers[path].set
    /\ wclock >= debounceTimers[path].due
    /\ debounceTimers' = [debounceTimers EXCEPT ![path] = NoTimer]
    /\ changes' = Append(changes, FileChange(debounceTimers[path].eventType,
                                             path, wclock))
    /\ rawLog' = [rawLog EXCEPT ![path].notes = @ + 1]
    /\ UNCHANGED <<running, watchers, walk, wclock, matched>>
    /\ UNCHANGED svars
    /\ UNCHANGED dvars

\* the time passes
Advance(dt) ==
    /\ wclock < Horizon
    /\ wclock' = wclock + dt
    /\ UNCHANGED <<running, watchers, walk, debounceTimers, changes, rawLog,
                   matched>>
    /\ UNCHANGED svars
    /\ UNCHANGED dvars

\* Debouncing: a platform whose fs.watch takes the recursive option
NextWatch ==
    \/ Start(TRUE)
    \/ Stop
    \/ \E path \in Paths, eventType \in EventTypes : RawEvent(path, eventType)
    \/ \E path \in Paths : Fire(path)
    \/ \E dt \in Delays : Advance(dt)

SpecWatch == InitRecover /\ [][NextWatch]_vars

\* the timers run and the time passes
SpecWatchFair ==
    /\ SpecWatch
    /\ WF_vars(\E dt \in Delays : Advance(dt))
    /\ \A path \in Paths : WF_vars(Fire(path))

----------------------------------------------------------------------------
(* matchTask on its inputs *)

MaxMatchTasks == 2   \* tasks in the list given to matchTask
MaxFiles == 1        \* ownership entries per task

\* ownership entries: a file, a directory, a bare name, a longer path that
\* ends with the file's, a path that the file's path begins
MatchFiles == { <<"s", "/", "a">>, <<"s", "/">>, <<"a">>,
                <<"t", "/", "s", "/", "a">>, <<"s", "/", "a", ".", "l">> }

\* changed paths, absolute
MatchPaths == { join(projectRoot, r) :
                  r \in { <<"s", "/", "a">>, <<"s", "/", "b">>, <<"b">>, <<"a">> } }

SeqsUpTo(S, n) == UNION {[1..m -> S] : m \in 0..n}

TaskIdOf(i) == <<"t", i>>

\* the task lists: the ids are distinct, the other fields are not read
MatchTaskLists ==
    { [i \in 1..Len(fs) |-> [id |-> TaskIdOf(i), files |-> fs[i]]] :
        fs \in SeqsUpTo(SeqsUpTo(MatchFiles, MaxFiles), MaxMatchTasks) }

MatchTask(filePath, tasks) ==
    /\ matched' = [called |-> TRUE, filePath |-> filePath, tasks |-> tasks,
                   result |-> matchTask(filePath, tasks)]
    /\ UNCHANGED <<running, watchers, walk, debounceTimers, changes, wclock,
                   rawLog>>
    /\ UNCHANGED svars
    /\ UNCHANGED dvars

\* one call per behaviour: the function keeps no state between calls
NextMatch ==
    /\ ~matched.called
    /\ \E filePath \in MatchPaths, tasks \in MatchTaskLists :
          MatchTask(filePath, tasks)

SpecMatch == InitRecover /\ [][NextMatch]_vars

----------------------------------------------------------------------------
(* writeCheckpoint, listCheckpoints and readLatestCheckpoint on their own *)

MaxWrites == 3     \* writeCheckpoint calls per behaviour
MaxStamp == 2      \* the clock of these calls runs from 0 to MaxStamp

\* a task as the board holds it
CheckpointTask(id, files) ==
    [id |-> id, description |-> "d1", assignee |-> "human", status |-> "todo",
     files |-> files, createdAt |-> 0, updatedAt |-> 0]

\* snapshots with an empty board and no design, and snapshots of a board
\* whose tasks declare a file more than once, with a design and a record of
\* delegated work
CheckpointData ==
    {[phase |-> ph, tasks |-> <<>>, design |-> Null, subagents |-> <<>>,
      context |-> c] : ph \in {"design", "planning"}, c \in {"first", "second"}}
    \cup
    {[phase |-> "executing",
      tasks |-> <<CheckpointTask("t1", <<"a.ts", "b.ts">>), CheckpointTask("t2", fs)>>,
      design |-> [taskDescription |-> "feat", agreedDesign |-> "plan",
                  decisions |-> <<"k1">>, deferredItems |-> <<>>, createdAt |-> 0],
      subagents |-> <<[taskId |-> "t1", status |-> "pending", spawnedAt |-> 0,
                       prompt |-> "p"]>>,
      context |-> "third"] : fs \in {<<"b.ts">>, <<"c.ts", "c.ts">>}}

\* time passes between two calls
Wait ==
    /\ clock < MaxStamp
    /\ clock' = clock + 1
    /\ UNCHANGED <<alive, dashboard, session, sessionFile, prefsFile, designFile,
                   memoryDir, chatLog, events, nops, failed, last>>
    /\ UNCHANGED wvars
    /\ UNCHANGED dvars

WriteCheckpoint(data) ==
    /\ nops < MaxWrites
    /\ Commit(writeCheckpoint(Store(NoFailure), data), "writeCheckpoint", data)

NextCheckpoint ==
    \/ Wait
    \/ \E data \in CheckpointData : WriteCheckpoint(data)

SpecCheckpoint == InitRecover /\ [][NextCheckpoint]_vars

----------------------------------------------------------------------------
(* The tools that pair a store call with a checkpoint and a log line *)

MaxToolOps == 2     \* tool calls per behaviour
MaxToolWrites == 5  \* the writes of the longest call: status, checkpoint,
                    \* log line, assignee, log line

\* which write of a call was rejected: the one of session.json ("session"),
\* the one of a checkpoint or of a log line ("aux"), or none
Fault(f, st) ==
    IF f.at = 0 \/ st.failIn # 0 THEN "none"
    ELSE IF st.wfail THEN "session" ELSE "aux"

UpdateArgs ==
    {[id |-> i, status |-> s, assignee |-> a] :
        i \in TaskIds, s \in Statuses, a \in Assignees}
    \cup {[id |-> i, status |-> s] : i \in TaskIds, s \in Statuses}
    \cup {[id |-> i, assignee |-> a] : i \in TaskIds, a \in Assignees}

DuoPhaseAdvance(phase, f) ==
    LET st == duo_phase_advance(Store(f), phase)
    IN  Commit(st, "duo_phase_advance", [phase |-> phase, fault |-> Fault(f, st)])

DuoTaskUpdate(args, f) ==
    LET st == duo_task_update(Store(f), args)
    IN  Commit(st, "duo_task_update", [args |-> args, fault |-> Fault(f, st)])

NextTools ==
    \/ nops < MaxToolOps /\ DuoTaskAdd("t1", "t2", NoFailure)
    \/ nops < MaxToolOps /\ \E p \in Phases, f \in Rejections(MaxToolWrites) :
          DuoPhaseAdvance(p, f)
    \/ nops < MaxToolOps /\ \E args \in UpdateArgs, f \in Rejections(MaxToolWrites) :
          DuoTaskUpdate(args, f)

SpecTools == InitRecover /\ [][NextTools]_vars

----------------------------------------------------------------------------
(* The dashboard: event streams that join, stall, break and close while the  *)
(* store emits                                                               *)

MaxDashOps == 3     \* setPhase calls per behaviour

\* GET /events
Connect(c) ==
    /\ alive /\ dashboard
    /\ clients[c].state = "none"
    /\ clients' = [clients EXCEPT ![c] = Joined]
    /\ UNCHANGED svars
    /\ UNCHANGED wvars
    /\ UNCHANGED cvars

\* the reader stops reading: the stream stays open and nothing tells the server
Stall(c) ==
    /\ clients[c].state = "open"
    /\ clients' = [clients EXCEPT ![c].state = "slow"]
    /\ UNCHANGED svars
    /\ UNCHANGED wvars
    /\ UNCHANGED cvars

\* the connection breaks; the "close" event of the request is still to come
Disconnect(c) ==
    /\ clients[c].state \in {"open", "slow"}
    /\ clients' = [clients EXCEPT ![c].state = "gone"]
    /\ UNCHANGED svars
    /\ UNCHANGED wvars
    /\ UNCHANGED cvars

\* req.on("close"): this.clients.delete(res)
Close(c) ==
    /\ clients[c].state = "gone"
    /\ clients' = [clients EXCEPT ![c] = NoClient]
    /\ UNCHANGED svars
    /\ UNCHANGED wvars
    /\ UNCHANGED cvars

\* setPhase with the dashboard attached: the event goes to every stream
DashSetPhase(phase, f) ==
    LET st == setPhase(Store(f), phase)
    IN  /\ alive /\ dashboard
        /\ CommitStore(st, "setPhase", phase)
        /\ clients' = Broadcast(clients, st.emits)
        /\ UNCHANGED cvars

NextDash ==
    \/ \E c \in ClientIds : Connect(c)
    \/ \E c \in ClientIds : Stall(c)
    \/ \E c \in ClientIds : Disconnect(c)
    \/ \E c \in ClientIds : Close(c)
    \/ nops < MaxDashOps /\ \E p \in {"design", "planning"}, f \in Rejections(1) :
          DashSetPhase(p, f)

SpecDash == Init /\ [][NextDash]_vars

\* the "close" event of a broken connection is delivered
SpecDashFair == SpecDash /\ \A c \in ClientIds : WF_vars(Close(c))

----------------------------------------------------------------------------
(* The event log of the dashboard over a long run of phase changes *)

MaxEmits == 203     \* setPhase calls per behaviour
FreeEmits == 2      \* the calls at the start that take either of two phases

\* design -> planning -> executing -> reviewing -> integrating -> idle
PhaseCycle == <<"design", "planning", "executing", "reviewing", "integrating",
                "idle">>

\* the phases offered to call number n + 1: a free choice at the start, the
\* cycle of a session afterwards
PhasesAt(n) ==
    IF n < FreeEmits THEN {"design", "planning"}
    ELSE {PhaseCycle[(n % Len(PhaseCycle)) + 1]}

NextEvents ==
    /\ nops < MaxEmits
    /\ \E p \in PhasesAt(nops) : SetPhase(p, NoFailure)

SpecEvents == Init /\ [][NextEvents]_vars

----------------------------------------------------------------------------
(* Phase changes on a session that has content *)

MaxPhaseOps == 3    \* calls per behaviour

NextPhase ==
    \/ nops < MaxPhaseOps /\ DuoTaskAdd("t1", "t2", NoFailure)
    \/ nops < MaxPhaseOps /\ \E d \in Designs : SetDesign(d, NoFailure)
    \/ nops < MaxPhaseOps /\ \E info \in SubagentInfos : AddSubagent(info, NoFailure)
    \/ nops < MaxPhaseOps /\ AddPreference("ui", "ai", NoFailure)
    \/ nops < MaxPhaseOps /\ \E p \in Phases, f \in Rejections(1) : DashSetPhase(p, f)

SpecPhase == Init /\ [][NextPhase]_vars

----------------------------------------------------------------------------
(* The chat log: log calls and reads of the history *)

MaxChatOps == 4     \* log and getHistory calls per behaviour
MaxLimit == 3       \* the limits given to getHistory run from -1 to MaxLimit

\* the entries of the tests of chat.ts
ChatEntries ==
    { [from |-> "system", type |-> "event", content |-> "Session started", taskId |-> ""],
      [from |-> "human", type |-> "message", content |-> "Let's build auth", taskId |-> ""],
      [from |-> "ai", type |-> "tool", content |-> "Task added", taskId |-> "t1"] }

LimitArgs == {<<>>} \cup {<<n>> : n \in -1..MaxLimit}

LogChat(entry, f) ==
    /\ alive
    /\ Commit(logChat(Store(f), entry.from, entry.type, entry.content, entry.taskId),
              "logChat", entry)

GetHistory(args) ==
    LET r == getHistory(Store(NoFailure), args)
    IN  /\ alive
        /\ last' = [op |-> "getHistory", id |-> args,
                    res |-> IF r.err = "none" THEN "ok" ELSE r.err,
                    wfail |-> FALSE, out |-> r.out]
        /\ nops' = nops + 1
        /\ UNCHANGED <<alive, dashboard, session, sessionFile, prefsFile,
                       designFile, memoryDir, chatLog, events, clock, failed>>
        /\ UNCHANGED wvars
        /\ UNCHANGED dvars

NextChat ==
    \/ Wait
    \/ nops < MaxChatOps /\ \E entry \in ChatEntries, f \in Rejections(1) :
          LogChat(entry, f)
    \/ nops < MaxChatOps /\ \E args \in LimitArgs : GetHistory(args)

SpecChat == InitRecover /\ [][NextChat]_vars

----------------------------------------------------------------------------
(* The workflow tools on a board of two tasks: updates, reviews, spawns,    *)
(* integration and recovery, every write succeeding                         *)

MaxFlowOps == 4     \* tool calls per behaviour

SpawnInputs ==
    {[taskId |-> i, dependencies |-> ds, prompt |-> "p"] :
        i \in TaskIds, ds \in {<<>>, <<"t1">>, <<"t3">>}}

DuoReviewStart(taskId) ==
    Commit(duo_review_start(Store(NoFailure), taskId), "duo_review_start",
           [taskId |-> taskId])

DuoReviewSubmit(taskId, approved) ==
    Commit(duo_review_submit(Store(NoFailure), taskId, approved, ""),
           "duo_review_submit", [taskId |-> taskId, approved |-> approved])

DuoIntegrate ==
    Commit(duo_integrate(Store(NoFailure)), "duo_integrate", [none |-> TRUE])

DuoSubagentSpawn(in) ==
    /\ Len(session.subagents) < MaxSubs
    /\ Commit(duo_subagent_spawn(Store(NoFailure), in), "duo_subagent_spawn", in)

DuoRecoverSession ==
    Commit(duo_recover_session(Store(NoFailure)), "duo_recover_session",
           [none |-> TRUE])

NextFlow ==
    \/ nops < MaxFlowOps /\ DuoTaskAdd("t1", "t2", NoFailure)
    \/ nops < MaxFlowOps /\ \E i \in TaskIds, s \in Statuses :
          DuoTaskUpdate([id |-> i, status |-> s], NoFailure)
    \/ nops < MaxFlowOps /\ DuoPhaseAdvance("executing", NoFailure)
    \/ nops < MaxFlowOps /\ \E i \in TaskIds : DuoReviewStart(i)
    \/ nops < MaxFlowOps /\ \E i \in TaskIds, approved \in BOOLEAN :
          DuoReviewSubmit(i, approved)
    \/ nops < MaxFlowOps /\ DuoIntegrate
    \/ nops < MaxFlowOps /\ \E in \in SpawnInputs : DuoSubagentSpawn(in)
    \/ nops < MaxFlowOps /\ DuoRecoverSession

SpecFlow == InitRecover /\ [][NextFlow]_vars

----------------------------------------------------------------------------
(* Store calls that overlap: a call runs to its await of writeFile, other    *)
(* calls run meanwhile, and the writes complete in any order                 *)

MaxOverlapOps == 3  \* store calls per behaviour

InFlight == {c \in CallIds : procs[c].pc # "idle"}

\* the calls offered: their name and their synchronous part up to the first
\* writeFile, run on the store as it is
OverlapCalls ==
    {[op |-> "setPhase", arg |-> p] : p \in {"design", "planning"}}
    \cup {[op |-> "addTask", arg |-> i] : i \in TaskIds}
    \cup {[op |-> "setDesign", arg |-> d] : d \in Designs}

\* the call up to its first await: the store record after it holds the
\* session in memory and, in the file it writes first, the content handed to
\* writeFile
UpToFirstWrite(call) ==
    IF call.op = "setPhase" THEN setPhase(Store(NoFailure), call.arg)
    ELSE IF call.op = "addTask"
    THEN addTask(Store(NoFailure), call.arg, "d1", "human", <<"a.ts">>)
    ELSE saveDesign([Store(NoFailure) EXCEPT !.s.design = call.arg])

\* a call starts and runs until writeFile is awaited
Begin(c, call) ==
    LET st == UpToFirstWrite(call)
        first == IF call.op = "setDesign" THEN "df" ELSE "sf"
    IN  /\ alive
        /\ procs[c].pc = "idle"
        /\ nops + Cardinality(InFlight) < MaxOverlapOps
        /\ call.op = "addTask" => Len(session.taskBoard.tasks) < MaxTasks
        /\ session' = st.s
        /\ events' = st.ev
        /\ procs' = [d \in CallIds |->
                       IF d = c
                       THEN [pc |-> "writing", op |-> call.op, file |-> first,
                             content |-> st[first], overlapped |-> InFlight # {}]
                       ELSE IF procs[d].pc = "idle" THEN procs[d]
                       ELSE [procs[d] EXCEPT !.overlapped = TRUE]]
        /\ UNCHANGED <<alive, dashboard, sessionFile, prefsFile, designFile,
                       memoryDir, chatLog, clock, nops, failed, last>>
        /\ UNCHANGED wvars
        /\ UNCHANGED <<clients, instances, stateInstance>>

\* the write of design.md by setDesign completes, and save() runs to its
\* writeFile on the session as it is now
DesignWritten(c) ==
    LET st == save(Store(NoFailure))
    IN  /\ procs[c].pc = "writing" /\ procs[c].file = "df"
        /\ designFile' = procs[c].content
        /\ session' = st.s
        /\ procs' = [procs EXCEPT ![c].file = "sf", ![c].content = st.sf]
        /\ UNCHANGED <<alive, dashboard, sessionFile, prefsFile, memoryDir,
                       chatLog, events, clock, nops, failed, last>>
        /\ UNCHANGED wvars
        /\ UNCHANGED <<clients, instances, stateInstance>>

\* the write of session.json completes and the call returns.  writeFile
\* truncates and fills the file with no lock: of two writes in progress on
\* the file the one that completes last decides its content, and their
\* chunks may mix (garbled)
Returns(c, garbled) ==
    /\ procs[c].pc = "writing" /\ procs[c].file = "sf"
    /\ garbled => procs[c].overlapped
    /\ sessionFile' = IF garbled THEN Torn ELSE procs[c].content
    /\ procs' = [procs EXCEPT ![c] = IdleProc]
    /\ last' = [op |-> procs[c].op, id |-> c, res |-> "ok", wfail |-> FALSE,
                overlapped |-> procs[c].overlapped]
    /\ nops' = nops + 1
    /\ UNCHANGED <<alive, dashboard, session, prefsFile, designFile, memoryDir,
                   chatLog, events, clock, failed>>
    /\ UNCHANGED wvars
    /\ UNCHANGED <<clients, instances, stateInstance>>

NextOverlap ==
    \/ \E c \in CallIds, call \in OverlapCalls : Begin(c, call)
    \/ \E c \in CallIds : DesignWritten(c)
    \/ \E c \in CallIds, garbled \in BOOLEAN : Returns(c, garbled)

SpecOverlap == InitRecover /\ [][NextOverlap]_vars

----------------------------------------------------------------------------
(* Tool calls that obtain the store at the same time: getStateInstanceAutoLoad *)
(* step by step, suspended at its awaits (resources.js)                       *)

MaxLoadOps == 4  \* tool calls per behaviour

Obtaining == {c \in CallIds : procs[c].pc # "idle"}

\* duo_session_start: new DuoState, init, setStateInstance(state)
LoadSessionStart ==
    /\ sessionFile = NoFile /\ instances = <<>> /\ Obtaining = {}
    /\ nops < MaxLoadOps
    /\ SessionStartStore(NoFailure)
    /\ instances' = <<session'>>
    /\ stateInstance' = 1
    /\ UNCHANGED <<clients, procs>>

\* a tool is called: if (stateInstance) return stateInstance; otherwise the
\* call is suspended at await import("node:fs")
Enter(c) ==
    /\ procs[c].pc = "idle"
    /\ nops + Cardinality(Obtaining) < MaxLoadOps
    /\ procs' = [procs EXCEPT ![c] =
                   IF stateInstance # 0 THEN [pc |-> "has", inst |-> stateInstance]
                   ELSE [pc |-> "importing"]]
    /\ UNCHANGED svars
    /\ UNCHANGED wvars
    /\ UNCHANGED <<clients, instances, stateInstance>>

\* the imports are done: with no session.json the call gets null and returns;
\* otherwise new DuoState(projectRoot), and the call is suspended in init()
Imported(c) ==
    /\ procs[c].pc = "importing"
    /\ IF sessionFile = NoFile
       THEN /\ procs' = [procs EXCEPT ![c] = IdleProc]
            /\ instances' = instances
            /\ nops' = nops + 1
            /\ last' = [op |-> "null", id |-> c, res |-> "ok", wfail |-> FALSE]
       ELSE /\ procs' = [procs EXCEPT ![c] =
                           [pc |-> "init", inst |-> Len(instances) + 1]]
            /\ instances' = Append(instances, DefaultSession(now))
            /\ UNCHANGED <<nops, last>>
    /\ UNCHANGED <<alive, dashboard, session, sessionFile, prefsFile, designFile,
                   memoryDir, chatLog, events, clock, failed>>
    /\ UNCHANGED wvars
    /\ UNCHANGED <<clients, stateInstance>>

\* init() of the new object is done: stateInstance = state; return state
Inited(c) ==
    LET st == init(NewDuoState(Store(NoFailure)))
        i == procs[c].inst
    IN  /\ procs[c].pc = "init"
        /\ st.err = "none"
        /\ instances' = [instances EXCEPT ![i] = st.s]
        /\ stateInstance' = i
        /\ procs' = [procs EXCEPT ![c].pc = "has"]
        /\ alive' = TRUE
        /\ session' = st.s
        /\ dashboard' = FALSE
        /\ events' = <<>>
        /\ UNCHANGED <<sessionFile, prefsFile, designFile, memoryDir, chatLog,
                       clock, nops, failed, last>>
        /\ UNCHANGED wvars
        /\ UNCHANGED clients

\* the tool works on the object it obtained (state.setPhase) and returns
Work(c, phase) ==
    LET i == procs[c].inst
        st == setPhase([Store(NoFailure) EXCEPT !.s = instances[i],
                           !.dash = dashboard /\ i = stateInstance], phase)
    IN  /\ procs[c].pc = "has"
        /\ instances' = [instances EXCEPT ![i] = st.s]
        /\ session' = instances'[stateInstance]
        /\ sessionFile' = st.sf
        /\ events' = IF i = stateInstance THEN st.ev ELSE events
        /\ procs' = [procs EXCEPT ![c] = IdleProc]
        /\ nops' = nops + 1
        /\ last' = [op |-> "setPhase", id |-> c, res |-> "ok", wfail |-> FALSE]
        /\ UNCHANGED <<alive, dashboard, prefsFile, designFile, memoryDir,
                       chatLog, clock, failed>>
        /\ UNCHANGED wvars
        /\ UNCHANGED <<clients, stateInstance>>

\* the process ends when no call is in progress; a new one has no object
LoadExit == Obtaining = {} /\ ProcessExit

NextLoad ==
    \/ LoadSessionStart
    \/ \E c \in CallIds : Enter(c)
    \/ \E c \in CallIds : Imported(c)
    \/ \E c \in CallIds : Inited(c)
    \/ \E c \in CallIds, p \in {"planning", "executing"} : Work(c, p)
    \/ LoadExit

SpecLoad == InitRecover /\ [][NextLoad]_vars

----------------------------------------------------------------------------
(* Starting and stopping on a platform whose fs.watch rejects the recursive  *)
(* option: start() walks the tree, one readdir at a time                     *)

NextWalk ==
    \/ Start(FALSE)
    \/ \E k \in 1..MaxWalks : WalkStep(k)
    \/ Stop
    \/ \E path \in Paths, eventType \in EventTypes : RawEvent(path, eventType)
    \/ \E path \in Paths : Fire(path)
    \/ \E dt \in Delays : Advance(dt)

SpecWalk == InitRecover /\ [][NextWalk]_vars

----------------------------------------------------------------------------
(* Properties of the store *)

Mutators == {"setPhase", "addTask", "updateTaskStatus", "reassignTask",
             "setReviewStatus", "setDesign", "addSubagent", "addPreference"}

Optional(r, k) == IF Has(r, k) THEN r[k] ELSE "undefined"

TaskSubstance(t) ==
    [id |-> t.id, description |-> t.description, assignee |-> t.assignee,
     status |-> t.status, files |-> t.files,
     reviewStatus |-> Optional(t, "reviewStatus"),
     reviewNotes |-> Optional(t, "reviewNotes")]

Substance(s) ==
    [phase |-> s.phase,
     tasks |-> [i \in 1..Len(s.taskBoard.tasks) |-> TaskSubstance(s.taskBoard.tasks[i])],
     design |-> s.design,
     subagents |-> s.subagents,
     preferences |-> s.preferences]

\* a fresh DuoState initialised on the same directory
Reloaded == init(NewDuoState(Store(NoFailure)))

\* the step is a call (Tick and ProcessExit are not)
IsCall == nops' = nops + 1

\* C1: after every successful mutator call of a run in which no write has
\* failed, session.json holds the in-memory session, and a fresh DuoState
\* initialised on the directory has the same phase, tasks, design,
\* delegated-work records and preferences.
C1_ReloadEqualsMemory ==
    (alive /\ ~failed /\ last.op \in Mutators /\ last.res = "ok")
        => /\ sessionFile = Json(Stringify(session))
           /\ Reloaded.err = "none"
           /\ Substance(Reloaded.s) = Substance(session)

C1_Witness ==
    /\ alive /\ ~failed /\ nops >= 2
    /\ last.op = "setReviewStatus" /\ last.res = "ok"
    /\ Len(session.taskBoard.tasks) > 0
    /\ Substance(Reloaded.s) = Substance(session)

\* C2: updateTaskStatus, reassignTask and setReviewStatus with an id that is
\* not on the board fail with not-found and leave the session, the emitted
\* events and session.json (updatedAt included) as they were.
C2_NotFoundChangesNothing ==
    [][(/\ IsCall
        /\ last'.op \in {"updateTaskStatus", "reassignTask", "setReviewStatus"}
        /\ FindFrom(session.taskBoard.tasks, last'.id, 1) = 0)
       => (/\ last'.res = "notfound"
           /\ session' = session
           /\ events' = events
           /\ sessionFile' = sessionFile)]_vars

C2_Witness ==
    /\ last.op = "reassignTask" /\ last.res = "notfound"
    /\ dashboard /\ clock > 0
    /\ sessionFile # NoFile /\ sessionFile.data.updatedAt < clock
    /\ Len(session.taskBoard.tasks) > 0

\* C3: addTask with an id that is already on the board is rejected with a
\* Conflict error and leaves the board and session.json unchanged.
C3_DuplicateIdRejected ==
    [][(/\ IsCall
        /\ last'.op = "addTask"
        /\ FindFrom(session.taskBoard.tasks, last'.id, 1) # 0)
       => (/\ last'.res = "conflict"
           /\ session'.taskBoard = session.taskBoard
           /\ sessionFile' = sessionFile)]_vars

UniqueIds(tasks) ==
    \A i, j \in 1..Len(tasks) : tasks[i].id = tasks[j].id => i = j

\* C4: no two entries of the task board have the same id, and the id of an
\* entry never changes while the instance lives.
C4_IdsUniqueAndImmutable ==
    /\ [](UniqueIds(session.taskBoard.tasks))
    /\ [][(alive /\ alive' /\ last'.op # "init")
          => \A i \in 1..Len(session.taskBoard.tasks) :
                /\ i <= Len(session'.taskBoard.tasks)
                /\ session'.taskBoard.tasks[i].id = session.taskBoard.tasks[i].id]_vars

\* C5: a mutator call one of whose writes failed rejects, and a mutator call
\* that returned successfully has written the full session.
C5_WriteFailurePropagates ==
    /\ (last.op \in Mutators /\ last.wfail) => last.res \in {"io", "crash"}
    /\ (alive /\ last.op \in Mutators /\ last.res = "ok")
           => sessionFile = Json(Stringify(session))

C5_Witness ==
    /\ alive /\ last.op = "addTask" /\ last.wfail /\ last.res = "io"
    /\ sessionFile # Json(Stringify(session))

\* C6: at every point at which the process can crash, session.json holds a
\* complete session, never a truncated one.
C6_SessionFileNeverTorn == sessionFile # Torn

\* C7: init() on a directory whose session.json cannot be parsed does not
\* throw and yields the default session: idle, empty board, no design, no
\* delegated-work records.
C7_InitToleratesCorruptState ==
    sessionFile = Torn
        => /\ Reloaded.err = "none"
           /\ Reloaded.s.phase = "idle"
           /\ Reloaded.s.taskBoard.tasks = <<>>
           /\ Reloaded.s.design = Null
           /\ Reloaded.s.subagents = <<>>

----------------------------------------------------------------------------
(* Properties of recovery *)

\* the session duo_recover_session starts from: the live instance, or the one
\* it loads from session.json
Local == getStateInstanceAutoLoad(Store(NoFailure)).s

\* the parsed latest checkpoint
Latest == readLatestCheckpoint(memoryDir).data

Recovered == IsCall /\ last'.op = "recover" /\ last'.res = "ok"

Pair(r) == <<r.taskId, r.spawnedAt>>

PairsOf(subs) == {Pair(subs[i]) : i \in 1..Len(subs)}

CountPair(subs, p) == Cardinality({i \in 1..Len(subs) : Pair(subs[i]) = p})

\* C8: after a completed recovery the phase is the checkpoint's, and every
\* task of the checkpoint has a board entry with its id and its status.
C8_RecoveryRestoresPhaseAndStatus ==
    [][Recovered
       => /\ session'.phase = Latest.phase
          /\ \A k \in 1..Len(Latest.tasks) :
                \E j \in 1..Len(session'.taskBoard.tasks) :
                    /\ session'.taskBoard.tasks[j].id = Latest.tasks[k].id
                    /\ session'.taskBoard.tasks[j].status = Latest.tasks[k].status]_vars

----------------------------------------------------------------------------
(* Reconstruction from a checkpoint *)

\* the store after DuoState.checkpoint of the current session
Snapshot == checkpoint(Store(NoFailure), "snapshot")

\* a fresh default session (idle, empty board) restored from that checkpoint
Reconstructed ==
    RestoreFrom([Snapshot EXCEPT !.s = DefaultSession(now), !.inst = TRUE],
                readLatestCheckpoint(Snapshot.md).data)

SessionSubstance(s) ==
    [phase |-> s.phase,
     design |-> s.design,
     tasks |-> [i \in 1..Len(s.taskBoard.tasks) |-> TaskSubstance(s.taskBoard.tasks[i])],
     subagents |-> s.subagents]

\* C11: a checkpoint of a session whose task ids are distinct, recovered into
\* a fresh default session, gives a session with the same phase, design,
\* tasks (description, assignee, files, status, review status and notes) and
\* delegated-work records.
C11_CheckpointReconstructsSession ==
    (alive /\ UniqueIds(session.taskBoard.tasks))
    => /\ Reconstructed.err = "none"
       /\ SessionSubstance(Reconstructed.s) = SessionSubstance(session)

----------------------------------------------------------------------------
(* Properties of the watcher *)

\* the step delivers a notification for the path
Notified(path) ==
    /\ Len(changes') = Len(changes) + 1
    /\ changes'[Len(changes')].relativePath = path

\* the notifications delivered for the path so far
ChangesFor(path) == {i \in 1..Len(changes) : changes[i].relativePath = path}

\* C12: while the watcher is not stopped, the raw events of a burst on a
\* non-ignored path (each less than the quiet period after the one before)
\* produce no more than one notification for the path, and once raw events
\* on the path have ceased they have produced exactly one, whatever raw
\* events on other paths come in between.
C12_BurstYieldsOneNotification ==
    /\ [](\A path \in Paths : rawLog[path].notes <= 1)
    /\ \A path \in Paths :
          (rawLog[path].n > 0 /\ ~shouldIgnore(path))
          ~> (rawLog[path].notes = 1 \/ rawLog[path].stopped)

\* a burst of two raw events on a path, with a raw event on another path
\* after the first, has produced its one notification
C12_Witness ==
    \E path \in Paths, other \in Paths :
        /\ other # path
        /\ rawLog[path].n = 2 /\ rawLog[path].notes = 1
        /\ rawLog[path].at < debounceMs
        /\ Cardinality(ChangesFor(path)) = 1
        /\ rawLog[other].n = 1 /\ ~shouldIgnore(other)
        /\ rawLog[other].at <= rawLog[path].at
        /\ ~rawLog[path].stopped

\* C13: a notification for a path is delivered only when debounceMs have
\* passed since the last raw event on the path, and every raw event on a
\* non-ignored path sets the timer of the path to a full quiet period.
C13_NotifiedOnlyAfterQuietPeriod ==
    [][\A path \in Paths :
          /\ Notified(path) => wclock >= rawLog[path].at + debounceMs
          /\ (rawLog'[path].n = rawLog[path].n + 1 /\ ~shouldIgnore(path))
             => /\ debounceTimers'[path].set
                /\ debounceTimers'[path].due = wclock + debounceMs]_vars

\* a notification was delivered for a path whose timer had been restarted by
\* a second raw event
C13_Witness ==
    \E path \in Paths :
        /\ rawLog[path].n = 2 /\ rawLog[path].at > 0
        /\ rawLog[path].notes = 1
        /\ \E i \in ChangesFor(path) :
              changes[i].timestamp >= rawLog[path].at + debounceMs

\* the path matches an ignore pattern as the specification words it: it
\* contains a plain pattern, or ends with what follows the wildcard of a
\* pattern that begins with one
MatchesIgnorePattern(path) ==
    \E k \in 1..Len(ignorePatterns) :
        LET pattern == ignorePatterns[k]
        IN  IF pattern[1] = "*" THEN endsWith(path, slice(pattern, 1))
            ELSE includes(path, pattern)

\* C14 as stated: a path that contains a plain pattern, or ends with the
\* literal suffix of a pattern that begins with a wildcard, never has a
\* debounce timer and never has a notification.
C14_IgnoredPathNeverScheduled ==
    \A path \in Paths :
        MatchesIgnorePattern(path)
        => ~debounceTimers[path].set /\ ChangesFor(path) = {}

\* the same with the wildcard patterns being those that begin with "*."
MatchesStarDotPattern(path) ==
    \E k \in 1..Len(ignorePatterns) :
        LET pattern == ignorePatterns[k]
        IN  IF Len(pattern) >= 2 /\ pattern[1] = "*" /\ pattern[2] = "."
            THEN endsWith(path, slice(pattern, 1))
            ELSE includes(path, pattern)

\* C14 (amended): a path that ends with the suffix ".ext" of a pattern of the
\* form "*.ext", or contains any other pattern as a substring, never has a
\* debounce timer and never has a notification, whatever events arrive.
C14_StarDotPatternIgnored ==
    \A path \in Paths :
        MatchesStarDotPattern(path)
        => ~debounceTimers[path].set /\ ChangesFor(path) = {}

\* raw events have arrived on a path that contains a plain pattern and on one
\* that ends with the suffix of a "*." pattern, and a quiet period has passed
C14_Witness ==
    /\ rawLog[<<"n", "m", "/", "a">>].n > 0
    /\ rawLog[<<"a", ".", "l">>].n > 0
    /\ wclock >= debounceMs

\* C15: when stop() returns no timer is pending, and no notification is
\* delivered for a raw event that was received before a stop().
C15_StopCancelsTimers ==
    [][/\ Stop => \A path \in Paths : ~debounceTimers'[path].set
       /\ \A path \in Paths : Notified(path) => ~rawLog[path].stopped]_vars

\* a stop() has cancelled the pending timer of a path, and the quiet period
\* of its raw event has passed since
C15_Witness ==
    \E path \in Paths :
        /\ rawLog[path].stopped /\ ~debounceTimers[path].set
        /\ wclock >= rawLog[path].at + debounceMs
        /\ ChangesFor(path) = {}

----------------------------------------------------------------------------
(* Properties of matchTask *)

\* the path of the last call, relative to the project root
MatchedRel == relative(projectRoot, matched.filePath)

\* the entries of the last call, as (task index, entry index)
MatchedEntries ==
    {<<i, k>> \in (1..Len(matched.tasks)) \X (1..(MaxFiles + 1)) :
        k <= Len(matched.tasks[i].files)}

EntryAt(e) == matched.tasks[e[1]].files[e[2]]

\* the relation as the specification words it: equality, r begins with f,
\* f is a suffix of r, or one of the two contains the other
Related(r, f) ==
    \/ r = f
    \/ startsWith(r, f)
    \/ endsWith(r, f)
    \/ includes(r, f)
    \/ includes(f, r)

\* C16 as stated: matchTask returns a task exactly when some entry f of some
\* task is equal to r, begins r, is a suffix of r, or contains or is
\* contained in r.
C16_MatchIffRelated ==
    matched.called
    => ((matched.result # Undefined)
        <=> \E e \in MatchedEntries : Related(MatchedRel, EntryAt(e)))

\* C16 (amended): matchTask returns a task exactly when some entry f of some
\* task is equal to r, begins r, ends with r, or is contained in r; an entry
\* that contains r without ending with it gives no match.
C16_MatchIffContainedOrSuffix ==
    matched.called
    => ((matched.result # Undefined)
        <=> \E e \in MatchedEntries :
               LET f == EntryAt(e)
               IN  \/ MatchedRel = f
                   \/ Len(f) <= Len(MatchedRel) /\ SubSeq(MatchedRel, 1, Len(f)) = f
                   \/ \E j \in 1..(Len(f) + 1) : SubSeq(f, j, Len(f)) = MatchedRel
                   \/ \E j \in 1..(Len(MatchedRel) + 1) :
                         /\ j + Len(f) - 1 <= Len(MatchedRel)
                         /\ SubSeq(MatchedRel, j, j + Len(f) - 1) = f)

\* matchTask was called with an entry that contains the path without ending
\* with it, and with one that ends with the path
C16_Witness ==
    /\ matched.called
    /\ \E e1, e2 \in MatchedEntries :
          /\ includes(EntryAt(e1), MatchedRel) /\ ~endsWith(EntryAt(e1), MatchedRel)
          /\ endsWith(EntryAt(e2), MatchedRel) /\ EntryAt(e2) # MatchedRel
    /\ matched.result # Undefined

\* the entry is directory-style and the path lies under it
NestedUnder(r, f) ==
    /\ f # <<>> /\ f[Len(f)] = "/"
    /\ Len(r) > Len(f)
    /\ startsWith(r, f)

\* the tasks of the last call one of whose entries the search accepts
Matching ==
    {i \in 1..Len(matched.tasks) :
        \E e \in MatchedEntries : e[1] = i /\ Owns(MatchedRel, EntryAt(e))}

\* C17: when a task has a directory-style entry and the path is nested under
\* that directory, matchTask returns a task, and returns that task when no
\* earlier task has an entry related to the path; when no entry of any task
\* is related to the path, matchTask returns no match.
C17_DirectoryEntryMatches ==
    matched.called
    => /\ \A e \in MatchedEntries :
             NestedUnder(MatchedRel, EntryAt(e))
             => /\ matched.result # Undefined
                /\ (\A d \in MatchedEntries :
                       d[1] < e[1] => ~Related(MatchedRel, EntryAt(d)))
                   => matched.result = matched.tasks[e[1]]
       /\ (\A e \in MatchedEntries : ~Related(MatchedRel, EntryAt(e)))
          => matched.result = Undefined

\* matchTask was called for a path under the directory of the second task,
\* the first task owning an unrelated file
C17_Witness ==
    /\ matched.called
    /\ Len(matched.tasks) = 2
    /\ \E e \in MatchedEntries :
          e[1] = 2 /\ NestedUnder(MatchedRel, EntryAt(e))
    /\ \E d \in MatchedEntries : d[1] = 1 /\ ~Related(MatchedRel, EntryAt(d))
    /\ matched.result = matched.tasks[2]

\* C18: when the entries of more than one task match the path, matchTask
\* returns the one of these tasks that comes first in the list.
C18_EarliestMatchWins ==
    (matched.called /\ Cardinality(Matching) > 1)
    => \E i \in Matching :
          /\ \A j \in Matching : i <= j
          /\ matched.result = matched.tasks[i]

\* matchTask was called with two tasks that match through different entries
C18_Witness ==
    /\ matched.called
    /\ Cardinality(Matching) = 2
    /\ matched.tasks[1].files # matched.tasks[2].files
    /\ matched.result = matched.tasks[1]

----------------------------------------------------------------------------
(* Properties of the checkpoint files *)

\* C19: listCheckpoints returns the identifiers of all checkpoint files, each
\* once, ordered newest-first by the timestamp they embed, and
\* readLatestCheckpoint returns the content of the last checkpoint written,
\* and nothing when none was written.
C19_NewestFirstAndLatest ==
    LET names == listCheckpoints(memoryDir)
        latest == readLatestCheckpoint(memoryDir)
    IN  /\ \A i, j \in 1..Len(names) : i < j => names[i] > names[j]
        /\ {names[i] : i \in 1..Len(names)} = {f.name : f \in memoryDir}
        /\ \A f \in memoryDir : f.content.data.timestamp = f.name
        /\ memoryDir = {} => latest = NoFile
        /\ last.op = "writeCheckpoint"
           => /\ latest.kind = "json"
              /\ latest.data.phase = last.id.phase
              /\ latest.data.tasks = last.id.tasks
              /\ latest.data.design = last.id.design
              /\ latest.data.subagents = last.id.subagents
              /\ latest.data.context = last.id.context

\* three checkpoints were written at increasing times, the last one unlike
\* the one before
C19_Witness ==
    /\ last.op = "writeCheckpoint"
    /\ Len(listCheckpoints(memoryDir)) = 3
    /\ \E f \in memoryDir :
          /\ f.name < clock
          /\ f.content.data.context # last.id.context
          /\ f.content.data.phase # last.id.phase

\* C20: every successful writeCheckpoint call creates a file of its own, so
\* after n calls, all successful, listCheckpoints returns n identifiers.
C20_OneFilePerCheckpoint ==
    last.op = "writeCheckpoint" => Len(listCheckpoints(memoryDir)) = nops

\* C21: the checkpoint that writeCheckpoint writes records the phase, the
\* task list, the design and the delegated-work records it was given, its
\* decisions are those of the design (none without a design), and its file
\* set holds every file that a task declares, each once, and nothing else.
C21_CheckpointIsCompleteSnapshot ==
    last.op = "writeCheckpoint"
    => LET ck == readLatestCheckpoint(memoryDir).data
           data == last.id
           declared == {data.tasks[i].files[k] :
                          <<i, k>> \in {x \in (1..Len(data.tasks)) \X (1..4) :
                                          x[2] <= Len(data.tasks[x[1]].files)}}
       IN  /\ ck.phase = data.phase
           /\ ck.tasks = data.tasks
           /\ ck.design = data.design
           /\ ck.subagents = data.subagents
           /\ ck.context = data.context
           /\ ck.decisions = IF data.design = Null THEN <<>>
                             ELSE data.design.decisions
           /\ \A file \in declared :
                 Cardinality({j \in 1..Len(ck.filesModified) :
                                ck.filesModified[j] = file}) = 1
           /\ \A j \in 1..Len(ck.filesModified) : ck.filesModified[j] \in declared

\* a checkpoint was written of a board with a design whose tasks declare the
\* same file twice
C21_Witness ==
    /\ last.op = "writeCheckpoint"
    /\ last.id.design # Null
    /\ Len(FlatFiles(last.id.tasks)) > Len(Latest.filesModified)
    /\ Len(Latest.filesModified) > 1

\* the task that the last duo_task_update names
ToolTask == session.taskBoard.tasks[FindFrom(session.taskBoard.tasks,
                                             last.id.args.id, 1)]

\* C22: when the checkpoint write or the log append of a phase advance or of
\* a task update is rejected, the call answers success, the phase or status it
\* set is in session.json, and the assignee asked for in the same call is set.
C22_AuxiliaryFailureIsNotFatal ==
    /\ (last.op = "duo_phase_advance" /\ last.id.fault = "aux")
       => /\ last.res = "ok"
          /\ sessionFile.data.phase = last.id.phase
    /\ (last.op = "duo_task_update" /\ last.id.fault = "aux")
       => /\ last.res = "ok"
          /\ Has(last.id.args, "status")
             => /\ ToolTask.status = last.id.args.status
                /\ Reloaded.s.taskBoard.tasks = session.taskBoard.tasks
          /\ Has(last.id.args, "assignee")
             => ToolTask.assignee = last.id.args.assignee

\* C23: with a dashboard attached, every mutator call that succeeds emits
\* exactly one event.
C23_EveryMutatorEmitsOneEvent ==
    [][(IsCall /\ dashboard /\ last'.op \in Mutators /\ last'.res = "ok")
       => Len(events') = Len(events) + 1]_vars

\* C24: a stream that does not take an event never makes the setPhase that
\* emitted it fail or skip its write of session.json, and every such stream
\* leaves the set of clients.
C24_BadObserverIsHarmlessAndDropped ==
    /\ []((/\ last.op = "setPhase" /\ ~last.wfail
           /\ \E c \in ClientIds : clients[c].undelivered > 0)
          => /\ last.res = "ok"
             /\ sessionFile.data.phase = last.id)
    /\ \A c \in ClientIds :
          (clients[c].undelivered > 0) ~> (clients[c].state = "none")

\* the entry that a phase change adds to the event log
PhaseEntry == [timestamp |-> clock,
               event |-> [type |-> "phase_changed", phase |-> session'.phase]]

\* C25: the event log never holds more than 200 entries, and each emission
\* leaves it holding the latest entries in the order of emission: the new
\* entry goes to the end, and only when the log is full does an entry leave,
\* the oldest.
C25_HistoryIsLatestEvents ==
    /\ [](Len(events) <= 200)
    /\ [][IsCall =>
            LET all == Append(events, PhaseEntry)
            IN  IF Len(events) < 200 THEN events' = all
                ELSE events' = Tail(all)]_vars

\* the log is full, an entry has been evicted and the entries differ
C25_Witness ==
    /\ nops > 200
    /\ Len(events) = 200
    /\ events[1].event.phase # events[200].event.phase

\* C26: setPhase(p) succeeds whatever the current phase and whatever p,
\* unless the write of session.json is rejected, and it changes the phase and
\* updatedAt and nothing else of the session; so a second setPhase(p) leaves
\* the content that the first one left.
C26_SetPhaseUnconditionalAndFramed ==
    [][(IsCall /\ last'.op = "setPhase")
       => /\ ~last'.wfail => last'.res = "ok"
          /\ last'.res = "ok"
             => /\ session' = [session EXCEPT !.phase = last'.id,
                                              !.updatedAt = clock]
                /\ session.phase = last'.id
                   => Substance(session') = Substance(session)]_vars

\* a session with tasks went from executing back to design
C26_Witness ==
    /\ last.op = "setPhase" /\ last.res = "ok" /\ last.id = "design"
    /\ session.phase = "design"
    /\ Len(session.taskBoard.tasks) = 2
    /\ Len(events) = 4
    /\ events[3].event.type = "phase_changed"
    /\ events[3].event.phase = "executing"

\* the board as the session has it: in memory while the process lives, in
\* session.json while it does not
Board ==
    IF alive THEN session.taskBoard.tasks
    ELSE IF sessionFile.kind = "json" THEN sessionFile.data.taskBoard.tasks
    ELSE <<>>

\* what of a task is fixed at its creation
TaskIdentity(t) ==
    [id |-> t.id, description |-> t.description, files |-> t.files,
     createdAt |-> t.createdAt]

\* C27: no call, reload or recovery removes a task from the board or changes
\* its id, description, files or creation time.
C27_TasksNeverRemoved ==
    [][\A i \in 1..Len(Board) :
          /\ i <= Len(Board')
          /\ TaskIdentity(Board'[i]) = TaskIdentity(Board[i])]_vars

\* C28: every addSubagent call that succeeds puts one record at the end of
\* the registry and leaves the records before it as they were, whether or not
\* a record of the same task, or the same record, is already there.
C28_AddSubagentAppends ==
    [][(IsCall /\ last'.op = "addSubagent" /\ last'.res = "ok")
       => LET old == session.subagents
              new == session'.subagents
          IN  /\ Len(new) = Len(old) + 1
              /\ SubSeq(new, 1, Len(old)) = old
              /\ new[Len(new)].taskId = last'.id]_vars

\* the registry holds the same record twice
C28_Witness ==
    /\ last.op = "addSubagent" /\ last.res = "ok"
    /\ Len(session.subagents) = 2
    /\ session.subagents[1] = session.subagents[2]

\* the i-th record of the log as it was logged
Logged(i) == [timestamp |-> chatLog[i].timestamp, from |-> chatLog[i].from,
              type |-> chatLog[i].type, content |-> chatLog[i].content]

\* the j-th record of the last getHistory
Returned(j) == [timestamp |-> last.out[j].timestamp, from |-> last.out[j].from,
                type |-> last.out[j].type, content |-> last.out[j].content]

\* C29: every log call that succeeds adds one record, the one logged, at the
\* end of the log and leaves the records before it as they were, and
\* getHistory() returns all the records in the order of logging.
C29_LogAppendsAndHistoryIsWhole ==
    /\ [][(IsCall /\ last'.op = "logChat" /\ last'.res = "ok")
          => /\ Len(chatLog') = Len(chatLog) + 1
             /\ SubSeq(chatLog', 1, Len(chatLog)) = chatLog
             /\ chatLog'[Len(chatLog')].content = last'.id.content
             /\ chatLog'[Len(chatLog')].from = last'.id.from
             /\ chatLog'[Len(chatLog')].timestamp = clock]_vars
    /\ []((last.op = "getHistory" /\ last.id = <<>>)
          => /\ last.res = "ok"
             /\ Len(last.out) = Len(chatLog)
             /\ \A i \in 1..Len(chatLog) : Returned(i) = Logged(i))

\* three records logged at different times were read back whole
C29_Witness ==
    /\ last.op = "getHistory" /\ last.id = <<>>
    /\ Len(last.out) = 3
    /\ last.out[1].timestamp < last.out[3].timestamp
    /\ last.out[1].content # last.out[3].content

\* the last getHistory returned the last n records of the log, in order
ReturnedLast(n) ==
    /\ Len(last.out) = n
    /\ \A j \in 1..n : Returned(j) = Logged(Len(chatLog) - n + j)

\* min(n, m), and no records for a limit below 0
Min(n, m) == IF n < 0 THEN 0 ELSE IF n <= m THEN n ELSE m

\* C30 as stated: getHistory(N) returns the last min(N, M) of the M records
\* for every N, and getHistory() returns all M.
C30_LimitReturnsLastMin ==
    last.op = "getHistory"
    => IF Len(last.id) > 0
       THEN ReturnedLast(Min(last.id[1], Len(chatLog)))
       ELSE ReturnedLast(Len(chatLog))

\* C30, amended: getHistory(N) returns the last min(N, M) of the M records
\* for every N >= 1; with no limit, or with a limit of 0 or less, it returns
\* all M.
C30_PositiveLimitReturnsLastMin ==
    last.op = "getHistory"
    => IF Len(last.id) > 0 /\ last.id[1] >= 1
       THEN ReturnedLast(Min(last.id[1], Len(chatLog)))
       ELSE ReturnedLast(Len(chatLog))

\* a limit below the number of records cut the history to the latest ones
C30_Witness ==
    /\ last.op = "getHistory"
    /\ last.id = <<2>>
    /\ Len(chatLog) = 3
    /\ Len(last.out) = 2
    /\ last.out[1].content # last.out[2].content
    /\ last.out[2].content # chatLog[1].content

\* the step moved a task to done
CompletedTask ==
    \E i \in 1..Len(session'.taskBoard.tasks) :
        /\ session'.taskBoard.tasks[i].status = "done"
        /\ i <= Len(session.taskBoard.tasks)
           => session.taskBoard.tasks[i].status # "done"

\* C31: a tool call that moves a task to done or changes the phase leaves a
\* checkpoint that records the phase and the tasks as the call left them.
C31_CheckpointOnCompletionAndPhaseChange ==
    [][(/\ IsCall /\ last'.res = "ok"
        /\ last'.op \in {"duo_task_update", "duo_review_submit", "duo_phase_advance",
                        "duo_integrate", "duo_recover_session"}
        /\ (CompletedTask \/ session'.phase # session.phase))
       => /\ memoryDir' # {}
          /\ Latest'.phase = session'.phase
          /\ Latest'.tasks = session'.taskBoard.tasks]_vars

\* C32: when calls that overlapped have all returned, session.json holds the
\* session as it is in memory, with the change of each of them.
C32_OverlappingCallsBothPersisted ==
    (InFlight = {} /\ last.op \in Mutators /\ last.overlapped)
    => sessionFile = Json(Stringify(session))

\* the objects that the calls in progress hold or are building
Held == {procs[c].inst : c \in {d \in CallIds : procs[d].pc \in {"init", "has"}}}

\* C33: whatever the order in which concurrent tool calls run
\* getStateInstanceAutoLoad, one DuoState object at most is made in the
\* process and every call works on that one.
C33_OneInstancePerProcess ==
    /\ Len(instances) <= 1
    /\ Cardinality(Held) <= 1

\* C34: when stop() was the last call and every start() has settled, no
\* watch is open and no timer is pending.
C34_StoppedWatcherHoldsNothing ==
    (~running /\ walk = <<>>)
    => /\ watchers = {}
       /\ \A p \in Paths : ~debounceTimers[p].set

\* the status of the task of this id on the board of session s
StatusOf(s, id) ==
    LET i == FindFrom(s.taskBoard.tasks, id, 1)
    IN  IF i = 0 THEN "absent" ELSE s.taskBoard.tasks[i].status

\* the task of the spawn just made exists and its dependencies are done tasks
SpawnAllowed ==
    /\ StatusOf(session, last'.id.taskId) # "absent"
    /\ \A k \in 1..Len(last'.id.dependencies) :
          StatusOf(session, last'.id.dependencies[k]) = "done"

\* C35: duo_subagent_spawn on a task that exists and whose dependencies all
\* exist and are done moves the task to in_progress and appends one
\* delegated-work record for it; in every other case it returns an error and
\* the session is as it was.
C35_SpawnOnlyWhenDependenciesDone ==
    [][(IsCall /\ last'.op = "duo_subagent_spawn")
       => IF SpawnAllowed
          THEN /\ last'.res = "ok"
               /\ StatusOf(session', last'.id.taskId) = "in_progress"
               /\ Len(session'.subagents) = Len(session.subagents) + 1
               /\ SubSeq(session'.subagents, 1, Len(session.subagents))
                  = session.subagents
               /\ session'.subagents[Len(session'.subagents)].taskId
                  = last'.id.taskId
          ELSE /\ last'.res # "ok"
               /\ session' = session]_vars

\* a task was spawned whose dependency is a done task
C35_Witness ==
    /\ last.op = "duo_subagent_spawn" /\ last.res = "ok"
    /\ last.id.dependencies = <<"t1">> /\ last.id.taskId = "t2"
    /\ StatusOf(session, "t2") = "in_progress"
    /\ Len(session.subagents) = 1

\* every task on the board is done
AllDone(s) ==
    \A i \in 1..Len(s.taskBoard.tasks) : s.taskBoard.tasks[i].status = "done"

\* C36: duo_integrate sets the phase to integrating when every task on the
\* board is done and changes nothing else; with a task that is not done the
\* session is as it was.
C36_IntegrateOnlyWhenAllDone ==
    [][(IsCall /\ last'.op = "duo_integrate")
       => IF AllDone(session)
          THEN /\ session'.phase = "integrating"
               /\ [session' EXCEPT !.phase = session.phase,
                                   !.updatedAt = session.updatedAt] = session
          ELSE session' = session]_vars

\* integration of a board of two done tasks
C36_Witness ==
    /\ last.op = "duo_integrate"
    /\ session.phase = "integrating"
    /\ Len(session.taskBoard.tasks) = 2
    /\ AllDone(session)

\* C37: no call moves the status of a task to an earlier one of
\* todo -> in_progress -> review -> done.
C37_StatusOnlyMovesForward ==
    [][\A i \in 1..Len(session.taskBoard.tasks) :
          i <= Len(session'.taskBoard.tasks)
          => StatusRank(session'.taskBoard.tasks[i].status)
             >= StatusRank(session.taskBoard.tasks[i].status)]_vars

\* the status of the last entry of this id in the tasks of a checkpoint
LastStatusIn(tasks, id) ==
    LET at == {k \in 1..Len(tasks) : tasks[k].id = id}
    IN  IF at = {} THEN "absent"
        ELSE tasks[CHOOSE k \in at : \A j \in at : j <= k].status

\* the status that the call just made gives to the task of this id, "" if
\* the call gives it none
Assigned(id) ==
    CASE last'.op = "duo_task_update" /\ last'.id.args.id = id
         -> last'.id.args.status
      [] last'.op = "duo_review_start" /\ last'.id.taskId = id -> "review"
      [] last'.op = "duo_review_submit" /\ last'.id.taskId = id
         /\ last'.id.approved -> "done"
      [] last'.op = "duo_subagent_spawn" /\ last'.id.taskId = id -> "in_progress"
      [] last'.op = "duo_recover_session" /\ memoryDir # {}
         -> LastStatusIn(Latest.tasks, id)
      [] OTHER -> ""

\* C37, amended: a call changes the status of the task it names only (the
\* first one on the board with that id), to the status it states, whatever
\* the status was; a call that succeeds leaves the task with that status.
C37_StatusIsWhatTheCallStates ==
    [][IsCall
       => \A i \in 1..Len(session.taskBoard.tasks) :
            LET old == session.taskBoard.tasks[i]
                new == session'.taskBoard.tasks[i]
            IN  /\ new.id = old.id
                /\ new.status # old.status => new.status = Assigned(old.id)
                /\ (last'.res = "ok" /\ last'.op = "duo_task_update"
                    /\ i = FindFrom(session.taskBoard.tasks, last'.id.args.id, 1))
                   => new.status = last'.id.args.status]_vars

\* a done task was set to todo by duo_task_update
C37_Witness ==
    /\ last.op = "duo_task_update" /\ last.res = "ok"
    /\ last.id.args.status = "todo"
    /\ StatusOf(session, last.id.args.id) = "todo"
    /\ memoryDir # {}
    /\ StatusOf([taskBoard |-> [tasks |-> Latest.tasks]], last.id.args.id) = "done"

\* the mutators that emit an event and then save
EmittingMutators ==
    {"setPhase", "addTask", "updateTaskStatus", "reassignTask", "setReviewStatus"}

\* what the call op on the task id leaves in memory when its write succeeds,
\* for each of its inputs
Succeeded(op, id) ==
    CASE op = "setPhase" -> {setPhase(Store(NoFailure), p) : p \in Phases}
      [] op = "addTask" ->
            {addTask(Store(NoFailure), id, in.description, in.assignee, in.files) :
                in \in TaskInputs}
      [] op = "updateTaskStatus" ->
            {updateTaskStatus(Store(NoFailure), id, s) : s \in Statuses}
      [] op = "reassignTask" ->
            {reassignTask(Store(NoFailure), id, a) : a \in Assignees}
      [] OTHER ->
            {setReviewStatus(Store(NoFailure), id, r[1], r[2]) : r \in ReviewInputs}

\* C38: a mutator whose write of session.json is rejected leaves in memory
\* the session and the emitted events of the same call with a successful
\* write, and the file as it was; the next mutator that succeeds writes the
\* session, that change included.
C38_FailedCallKeepsChange ==
    [][/\ (/\ IsCall /\ alive /\ alive'
           /\ last'.op \in EmittingMutators /\ last'.wfail)
          => /\ \E ok \in Succeeded(last'.op, last'.id) :
                   session' = ok.s /\ events' = ok.ev
             /\ sessionFile' = sessionFile
       /\ (/\ IsCall /\ alive /\ alive' /\ failed
           /\ last'.op \in EmittingMutators /\ last'.res = "ok")
          => sessionFile' = Json(Stringify(session'))]_vars

\* addTask was rejected by the write and setPhase then succeeded: the task
\* is on the board and in session.json
C38_Witness ==
    /\ alive /\ failed /\ nops = 2
    /\ last.op = "setPhase" /\ last.res = "ok" /\ ~last.wfail
    /\ Len(session.taskBoard.tasks) = 1
    /\ sessionFile = Json(Stringify(session))
    /\ Len(events) = 2

\* C39: a recovery that follows a recovery from the same checkpoint leaves
\* the phase, the design, the tasks and the delegated-work records as the
\* first one left them, and adds no task and no record.
C39_RecoveryIsIdempotent ==
    [][(/\ IsCall
        /\ last.op = "recover" /\ last.res = "ok"
        /\ last'.op = "recover" /\ last'.res = "ok")
       => /\ Substance(session') = Substance(session)
          /\ Len(session'.taskBoard.tasks) = Len(session.taskBoard.tasks)
          /\ Len(session'.subagents) = Len(session.subagents)]_vars

\* two recoveries in succession, of a checkpoint that holds tasks
C39_Witness ==
    /\ last.op = "recover" /\ last.res = "ok"
    /\ Len(chatLog) >= 2
    /\ chatLog[Len(chatLog)].content = "recovered"
    /\ chatLog[Len(chatLog) - 1].content = "recovered"
    /\ Len(Latest.tasks) > 0
    /\ Len(session.taskBoard.tasks) = Len(Latest.tasks)

\* C40: the notification for a path carries the kind of the last raw event
\* on the path and the time at which it is emitted.
C40_NotificationCarriesLastKind ==
    [][\A path \in Paths :
          Notified(path)
          => /\ changes'[Len(changes')].eventType = rawLog[path].eventType
             /\ changes'[Len(changes')].timestamp = wclock]_vars

\* a burst of two raw events, the second one later than the first and a
\* change, was notified once, as a change, at a time later than that of its
\* last raw event
C40_Witness ==
    \E path \in Paths :
        /\ rawLog[path].n = 2 /\ rawLog[path].notes = 1
        /\ rawLog[path].at > 0 /\ rawLog[path].at < debounceMs
        /\ rawLog[path].eventType = "change"
        /\ Cardinality(ChangesFor(path)) = 1
        /\ \E i \in ChangesFor(path) :
              /\ changes[i].eventType = "change"
              /\ changes[i].timestamp > rawLog[path].at

====
